---- MODULE Spec2Model ----
(***************************************************************************)
(* Model of the deterministic core of clinical-trials-scraper:             *)
(*   - run_aggregation.py: clean_company_name, the collision-aware index   *)
(*     and the trial matching loop;                                        *)
(*   - app/core/hub_prox_calculator.py and app/__init__.py: the nearest    *)
(*     hub search and its caller run_hub_proximity_calculator;             *)
(*   - app/utils/general_utils.py: get_distance (haversine).               *)
(* Strings are sequences of one-character strings.  Floating point         *)
(* distances are fixed-point integers.                                     *)
(***************************************************************************)
EXTENDS Integers, Sequences, FiniteSets, TLC

VARIABLES
    \* ---- clean_company_name applied to one raw name
    name,               \* the raw name handed to clean_company_name
    cleaned,            \* the key it returned (NotRun before the call)
    \* ---- configuration shared by the scripts
    business_suffixes,  \* list of suffix entries (each a string)
    banned_phrases,     \* list of banned phrases (each a string)
    \* ---- run_aggregation.py
    pc,                 \* position of the script
    company_names,      \* raw company names read from the CSV
    idx,                \* how many company names the index loop has consumed
    temp_map,           \* cleaned key -> list of raw names
    unique_cleaned_map, \* cleaned key -> the single raw name
    n_trials,           \* how many trials the matching loop has consumed
    known_companies,    \* raw company name -> [trial_count, trials]
    unknown_trials,     \* list of unmatched trials
    lead_sponsors,      \* set of (lead, joined collaborators) pairs
    written,            \* the output files written so far
    last,               \* trace of the latest iteration of the matching loop
    trial,              \* the loop variable of the matching loop
    \* ---- run_hub_proximity_calculator
    hpc,                \* position of run_hub_proximity_calculator
    hub_file,           \* the hub coordinates file: whether it exists, its rows
    hubs,               \* hubs loaded from the file
    distance_threshold, \* the distance_threshold argument
    hub_mapping,        \* identity tuple -> (closest hub, distance)
    n_items,            \* how many data items have been consumed
    hub_calls,          \* number of find_closest_hub calls made
    hub_log,            \* trace: one record per data item consumed
    \* ---- run_geocoding
    gpc,                \* position of run_geocoding's main thread
    geo_args,           \* its arguments: company_ids, company_names, company_addresses
    futures,            \* index -> the future submitted for that index
    results,            \* the results list
    geo_outcome,        \* trace: index -> what the geocoder did for that index
    \* ---- parse_chatbot_response applied to one response
    response,           \* the response text, as a sequence of tokens
    parsed,             \* what the call did (NotCalled before the call)
    \* ---- the two-stage classifiers
    cpc,                \* position of the classifier
    max_retries,        \* the max_retries argument
    attempt,            \* iterations of the retry loop completed
    queries,            \* azure_service.query calls made
    extraction_log,     \* trace: the extraction responses received
    messages,           \* the local variable messages
    query_log,          \* trace: the messages of each query and its answer
    areas,              \* the value returned
    \* ---- test.py (the other variables are those of run_aggregation.py)
    cleaned_company_names,  \* cleaned version -> raw company name
    \* ---- get_distance applied to one pair of points
    dist_args,          \* the arguments lat1, lon1, lat2, lon2
    dist_result,        \* the distance returned (NoneValue before the call)
    \* ---- get_disease_condition_from_description
    dpc,                \* position: the loop it is in, or how it ended
    disease_data,       \* disease_conditions.json: (category, conditions) in order
    disease_max_retries,    \* the max_retries argument
    disease_iter,       \* iterations of the current loop completed
    category,           \* the category accepted (<<>> while there is none)
    category_queries,   \* queries made with category_messages
    condition_queries,  \* queries made with condition_messages
    disease_result,     \* the value returned
    \* ---- app/services/scrape_webpage.py
    url_cache,          \* url -> results
    drug_cache,         \* drug name -> results
    html_mapping,       \* drug name -> path of the saved overview
    disk,               \* the three caches as save_caches wrote them last
    http_log,           \* trace: every requests.get made, in order
    scrape_call,        \* trace: the latest call and what it did
    n_calls,            \* calls made so far
    \* ---- AzureOpenaiService.query
    qpc,                \* position: "attempt", "returned" or "raised"
    attempt_number,     \* attempts the retry wrapper has made
    endpoint_calls,     \* trace: every endpoint call, in order
    attempt_log,        \* trace: how each attempt ended
    query_outcome       \* what the call gave its caller

cleanVars == <<name, cleaned>>
confVars == <<business_suffixes, banned_phrases>>
aggVars == <<pc, company_names, idx, temp_map, unique_cleaned_map, n_trials,
             known_companies, unknown_trials, lead_sponsors, written, last,
             trial>>
hubVars == <<hpc, hub_file, hubs, distance_threshold, hub_mapping, n_items,
             hub_calls, hub_log>>
geoVars == <<gpc, geo_args, futures, results, geo_outcome>>
parseVars == <<response, parsed>>
clsVars == <<cpc, max_retries, attempt, queries, extraction_log, areas,
             messages, query_log>>
testVars == <<cleaned_company_names>>
distVars == <<dist_args, dist_result>>
diseaseVars == <<dpc, disease_data, disease_max_retries, disease_iter, category,
                 category_queries, condition_queries, disease_result>>
scrapeVars == <<url_cache, drug_cache, html_mapping, disk, http_log, scrape_call,
                n_calls>>
queryVars == <<qpc, attempt_number, endpoint_calls, attempt_log, query_outcome>>
moreVars == <<distVars, diseaseVars, scrapeVars, queryVars>>
extVars == <<geoVars, parseVars, clsVars, testVars, moreVars>>
pipelineVars == <<cleanVars, confVars, aggVars, hubVars, geoVars, parseVars,
                  clsVars, testVars>>
vars == <<cleanVars, confVars, aggVars, hubVars, extVars>>

(***************************************************************************)
(* Bounds of the model.                                                    *)
(***************************************************************************)
MaxLen == 4         \* longest raw name tried on clean_company_name alone
MaxCompanies == 2   \* longest company-name list
MaxTrials == 2      \* longest trial list
MaxHubs == 2        \* longest hub list
MaxItems == 2       \* longest data list of run_hub_proximity_calculator
MaxAddresses == 2   \* longest address list of run_geocoding
MaxResponseLen == 4 \* longest response (in tokens) tried on parse_chatbot_response
MaxRetries == 3     \* largest max_retries argument of the classifiers
MaxCalls == 2       \* most calls made to the functions of scrape_webpage.py

\* test.py line 48: a trailing word of at most this many characters is dropped
ShortWordLen == 3

(***************************************************************************)
(* Characters.  Python's \w is letters, digits and underscore; \s is       *)
(* whitespace; str.lower maps each upper-case letter to its lower-case     *)
(* letter.                                                                 *)
(***************************************************************************)
LowerLetters == {"a", "b", "c", "n"}
UpperLetters == {"A", "B", "C", "N"}
Digits == {"1"}
WordChars == LowerLetters \cup UpperLetters \cup Digits \cup {"_"}
Whitespace == {" ", "\n"}
NotRun == <<"not run">>
\* Python's None where a str is expected; no string has a character "None"
None == <<"None">>

ToLower(c) ==
    CASE c = "A" -> "a"
      [] c = "B" -> "b"
      [] c = "C" -> "c"
      [] c = "N" -> "n"
      [] OTHER -> c

IsWord(c) == c \in WordChars
IsSpace(c) == c \in Whitespace

Lower(s) == [i \in 1..Len(s) |-> ToLower(s[i])]

\* str.strip(): drop leading and trailing whitespace
RECURSIVE LStrip(_)
LStrip(s) ==
    IF s # <<>> /\ IsSpace(Head(s)) THEN LStrip(Tail(s)) ELSE s

RECURSIVE RStrip(_)
RStrip(s) ==
    IF s # <<>> /\ IsSpace(s[Len(s)]) THEN RStrip(SubSeq(s, 1, Len(s) - 1)) ELSE s

Strip(s) == RStrip(LStrip(s))

\* the positions of s holding character c
Positions(s, c) == {i \in 1..Len(s) : s[i] = c}

Min(S) == CHOOSE x \in S : \A y \in S : x <= y

(***************************************************************************)
(* clean_company_name, run_aggregation.py lines 47-80.                     *)
(***************************************************************************)
\* `.*$` after position j: `.` matches no line break, `$` matches at the end of
\* the string or just before a line break that ends it.  The value is the
\* position where the match ends, or -1 when `.*$` cannot match.
DotStarEnd(s, j) ==
    LET breaks == {k \in (j + 1)..Len(s) : s[k] = "\n"}
    IN  IF breaks = {} THEN Len(s)
        ELSE IF breaks = {Len(s)} THEN Len(s) - 1
        ELSE -1

\* whether r'\([^)]*\).*$' matches starting at position i
ParenMatchAt(s, i) ==
    /\ s[i] = "("
    /\ \E j \in (i + 1)..Len(s) :
          /\ s[j] = ")"
          /\ \A k \in (i + 1)..(j - 1) : s[k] # ")"
          /\ DotStarEnd(s, j) >= 0

\* the mutant: the tail `.*$` of the pattern forgotten, so that only the
\* parenthetical itself is removed
RemoveParenTailOnlyParen(s) ==
    LET starts == {i \in 1..Len(s) : ParenMatchAt(s, i)}
    IN  IF starts = {} THEN s
        ELSE LET i == Min(starts)
                 j == Min({k \in (i + 1)..Len(s) : s[k] = ")"})
             IN  SubSeq(s, 1, i - 1) \o SubSeq(s, j + 1, Len(s))

\* step 1: re.sub(r'\([^)]*\).*$', '', name): the leftmost match is removed;
\* what is left after it is empty or one line break, so there is one match
RemoveParenTail(s) ==
    LET starts == {i \in 1..Len(s) : ParenMatchAt(s, i)}
    IN  IF starts = {} THEN s
        ELSE LET i == Min(starts)
                 j == Min({k \in (i + 1)..Len(s) : s[k] = ")"})
                 e == DotStarEnd(s, j)
             IN  SubSeq(s, 1, i - 1) \o SubSeq(s, e + 1, Len(s))

\* step 2: re.sub(r'[\.,;:\-]', '', name)
Punctuation == {".", ",", ";", ":", "-"}
StripPunctuation(s) == SelectSeq(s, LAMBDA c : c \notin Punctuation)

\* step 3: re.sub(r'[^\w\s]', '', cleaned)
StripNonWord(s) == SelectSeq(s, LAMBDA c : IsWord(c) \/ IsSpace(c))

\* \b between s[p] and s[p+1] (p = 0 is the start, p = Len(s) the end)
Boundary(s, p) ==
    LET before == p >= 1 /\ IsWord(s[p])
        after == p < Len(s) /\ IsWord(s[p + 1])
    IN  before # after

\* the literal e (re.escape, re.IGNORECASE) matches s at position p, between
\* two \b
LiteralAt(s, p, e) ==
    /\ p + Len(e) - 1 <= Len(s)
    /\ \A k \in 1..Len(e) : ToLower(s[p + k - 1]) = ToLower(e[k])
    /\ Boundary(s, p - 1)
    /\ Boundary(s, p + Len(e) - 1)

\* the length matched at position p by \b(?:e1|e2|...)\b: the first alternative
\* of the list that matches, 0 when none does
SuffixMatchLen(s, p, suffixes) ==
    LET hits == {a \in 1..Len(suffixes) : LiteralAt(s, p, suffixes[a])}
    IN  IF hits = {} THEN 0 ELSE Len(suffixes[Min(hits)])

\* step 5: re.sub(suffix_pattern, '', cleaned): scan from the left, drop each
\* match and go on after it
RECURSIVE RemoveSuffixesFrom(_, _, _)
RemoveSuffixesFrom(s, p, suffixes) ==
    IF p > Len(s) THEN <<>>
    ELSE LET n == SuffixMatchLen(s, p, suffixes)
         IN  IF n > 0 THEN RemoveSuffixesFrom(s, p + n, suffixes)
             ELSE <<s[p]>> \o RemoveSuffixesFrom(s, p + 1, suffixes)

RemoveSuffixes(s, suffixes) == RemoveSuffixesFrom(s, 1, suffixes)

\* the mutant: the run of whitespace is kept as it is
CollapseSpacesNot(s) == s

\* step 6: re.sub(r'\s+', ' ', cleaned)
RECURSIVE CollapseSpaces(_)
CollapseSpaces(s) ==
    IF s = <<>> THEN <<>>
    ELSE IF IsSpace(Head(s))
         THEN <<" ">> \o CollapseSpaces(LStrip(s))
         ELSE <<Head(s)>> \o CollapseSpaces(Tail(s))

\* clean_company_name(name); a value that is not a str (None) gives ""
clean_company_name(raw, suffixes) ==
    IF raw = None THEN <<>>
    ELSE CollapseSpaces(
             Strip(RemoveSuffixes(
                 Lower(Strip(StripNonWord(StripPunctuation(RemoveParenTail(raw))))),
                 suffixes)))

(***************************************************************************)
(* clean_company_name on its own: every raw name of at most MaxLen         *)
(* characters, under each suffix vocabulary.                               *)
(***************************************************************************)
CleanChars == {"a", "b", "B", "1", " ", "\n", "(", ")", ".", "&"}

\* the strings of at most n characters of CleanChars
StringsUpTo(n) == UNION {[1..k -> CleanChars] : k \in 0..n}

\* business_suffixes.txt, lines 25-30: non-empty lines, stripped and lower-cased;
\* "b" stands for a one-word suffix, "a b" for a two-word one
Vocabularies ==
    { << <<"b">> >>,
      << <<"a", " ", "b">> >>,
      << <<"a", " ", "b">>, <<"b">> >> }

\* the trace of the matching loop before its first iteration
NoTrial == [id |-> 0, lead |-> <<>>, collabs |-> <<>>]
NoLast == [trial |-> NoTrial, skipped |-> FALSE, matched |-> {}, looked |-> <<>>]

\* the variables of run_aggregation.py, while it does not run
AggIdle ==
    /\ pc = "idle"
    /\ company_names = <<>>
    /\ idx = 0
    /\ temp_map = <<>>
    /\ unique_cleaned_map = <<>>
    /\ n_trials = 0
    /\ known_companies = <<>>
    /\ unknown_trials = <<>>
    /\ lead_sponsors = {}
    /\ written = {}
    /\ last = NoLast
    /\ trial = NoTrial

\* the variables of run_hub_proximity_calculator, while it does not run
HubIdle ==
    /\ hpc = "idle"
    /\ hub_file = [exists |-> FALSE, rows |-> <<>>]
    /\ hubs = <<>>
    /\ distance_threshold = 0
    /\ hub_mapping = <<>>
    /\ n_items = 0
    /\ hub_calls = 0
    /\ hub_log = <<>>

CleanIdle ==
    /\ name = <<>>
    /\ cleaned = NotRun

\* the variables of run_geocoding, while it does not run
GeoIdle ==
    /\ gpc = "idle"
    /\ geo_args = [company_ids |-> <<>>, company_names |-> <<>>,
                   company_addresses |-> <<>>]
    /\ futures = <<>>
    /\ results = <<>>
    /\ geo_outcome = <<>>

\* parse_chatbot_response has not been called
NotCalled == [raises |-> FALSE, is_none |-> FALSE, data |-> <<"not called">>]

\* the variables of parse_chatbot_response, while it does not run
ParseIdle ==
    /\ response = <<>>
    /\ parsed = NotCalled

\* the variables of the classifiers, while they do not run
ClsIdle ==
    /\ cpc = "idle"
    /\ max_retries = 0
    /\ attempt = 0
    /\ queries = 0
    /\ extraction_log = <<>>
    /\ areas = <<>>
    /\ messages = <<>>
    /\ query_log = <<>>

\* get_distance has not been called
DistIdle ==
    /\ dist_args = <<0, 0, 0, 0>>
    /\ dist_result = <<>>

\* get_disease_condition_from_description does not run
DiseaseIdle ==
    /\ dpc = "idle"
    /\ disease_data = <<>>
    /\ disease_max_retries = 0
    /\ disease_iter = 0
    /\ category = <<>>
    /\ category_queries = 0
    /\ condition_queries = 0
    /\ disease_result = <<>>

\* no function of scrape_webpage.py has been called
NoCall == [fn |-> "none", url |-> "", cached |-> FALSE, first |-> <<>>,
           requests |-> <<>>, pages |-> <<>>, raised |-> FALSE, result |-> <<>>]

\* the module as load_caches leaves it when there is no cache directory
ScrapeIdle ==
    /\ url_cache = <<>>
    /\ drug_cache = <<>>
    /\ html_mapping = <<>>
    /\ disk = [url_cache |-> <<>>, drug_cache |-> <<>>, html_mapping |-> <<>>]
    /\ http_log = <<>>
    /\ scrape_call = NoCall
    /\ n_calls = 0

\* AzureOpenaiService.query is not called
QueryIdle ==
    /\ qpc = "idle"
    /\ attempt_number = 0
    /\ endpoint_calls = <<>>
    /\ attempt_log = <<>>
    /\ query_outcome = <<>>

MoreIdle == DistIdle /\ DiseaseIdle /\ ScrapeIdle /\ QueryIdle

\* the variables of the functions that do not run
ExtIdle ==
    GeoIdle /\ ParseIdle /\ ClsIdle /\ cleaned_company_names = <<>> /\ MoreIdle

InitClean ==
    /\ name \in StringsUpTo(MaxLen) \cup {None}
    /\ cleaned = NotRun
    /\ business_suffixes \in Vocabularies
    /\ banned_phrases = <<>>
    /\ AggIdle
    /\ HubIdle
    /\ ExtIdle

\* one call of clean_company_name
CleanName ==
    /\ cleaned = NotRun
    /\ cleaned' = clean_company_name(name, business_suffixes)
    /\ UNCHANGED <<name, confVars, aggVars, hubVars, extVars>>

NextClean == CleanName

SpecClean == InitClean /\ [][NextClean]_vars

(***************************************************************************)
(* Claims about clean_company_name (checked under SpecClean).              *)
(***************************************************************************)
HasParen(s) == Positions(s, "(") # {}

\* the part of s that precedes its first "("
BeforeParen(s) == SubSeq(s, 1, Min(Positions(s, "(")) - 1)

\* the first "(" of s is followed by a ")", and no line break follows the
\* first such ")" except one that ends s
ParenClosed(s) ==
    LET closes == {j \in (Min(Positions(s, "(")) + 1)..Len(s) : s[j] = ")"}
    IN  /\ closes # {}
        /\ \A k \in (Min(closes) + 1)..(Len(s) - 1) : s[k] # "\n"

\* C9 as stated: for every raw name containing "(", the key equals the key of
\* the part that precedes the first "(", closed or not.
C9_TruncatesAtFirstParen ==
    (cleaned # NotRun /\ HasParen(name)) =>
        cleaned = clean_company_name(BeforeParen(name), business_suffixes)

\* C9 amended: for every raw name whose first "(" is followed by a ")" (with no
\* line break after that ")" other than one ending the name), the key equals
\* the key of the part that precedes the first "(".
C9_TruncatesAtClosedParen ==
    (cleaned # NotRun /\ HasParen(name) /\ ParenClosed(name)) =>
        cleaned = clean_company_name(BeforeParen(name), business_suffixes)

\* a name "x(...)y" with a word character after the ")" has been cleaned to a
\* non-empty key
C9_Witness ==
    /\ cleaned # NotRun
    /\ cleaned # <<>>
    /\ HasParen(name)
    /\ ParenClosed(name)
    /\ \E j \in 2..Len(name) : name[j - 1] = ")" /\ IsWord(name[j])

\* the characters a key may hold
KeyChars == LowerLetters \cup Digits \cup {"_", " "}

\* e occurs in key k as whole words: delimited by a space or an end of k
WholeWordIn(k, e) ==
    \E p \in 1..Len(k) :
        /\ p + Len(e) - 1 <= Len(k)
        /\ SubSeq(k, p, p + Len(e) - 1) = e
        /\ (p = 1 \/ k[p - 1] = " ")
        /\ (p + Len(e) - 1 = Len(k) \/ k[p + Len(e)] = " ")

\* lower-case letters, digits, underscore and single inner spaces only
WellFormedKey(k) ==
    /\ \A i \in 1..Len(k) : k[i] \in KeyChars
    /\ k # <<>> => (k[1] # " " /\ k[Len(k)] # " ")
    /\ \A i \in 1..(Len(k) - 1) : ~(k[i] = " " /\ k[i + 1] = " ")

SingleWord(e) == \A i \in 1..Len(e) : ~IsSpace(e[i])

\* C10 as stated: every key is well formed and holds no whole-word occurrence
\* of any entry of the suffix vocabulary.
C10_KeyNormalForm ==
    cleaned # NotRun =>
        /\ WellFormedKey(cleaned)
        /\ \A a \in 1..Len(business_suffixes) :
              ~WholeWordIn(cleaned, business_suffixes[a])

\* C10 amended: every key is well formed and holds no whole-word occurrence of
\* any one-word entry of the suffix vocabulary.
C10_KeyNormalFormOneWord ==
    cleaned # NotRun =>
        /\ WellFormedKey(cleaned)
        /\ \A a \in 1..Len(business_suffixes) :
              SingleWord(business_suffixes[a]) =>
                  ~WholeWordIn(cleaned, business_suffixes[a])

\* a name with two adjacent whitespace characters and a one-word suffix in
\* upper case has been cleaned to a non-empty key
C10_Witness ==
    /\ cleaned # NotRun
    /\ cleaned # <<>>
    /\ name # None
    /\ \E i \in 1..(Len(name) - 1) : IsSpace(name[i]) /\ IsSpace(name[i + 1])
    /\ \E a \in 1..Len(business_suffixes) :
          /\ SingleWord(business_suffixes[a])
          /\ \E i \in 1..Len(name) :
                /\ name[i] \in UpperLetters
                /\ <<ToLower(name[i])>> = business_suffixes[a]
                /\ WholeWordIn(Lower(name), business_suffixes[a])

(***************************************************************************)
(* run_aggregation.py: the index (lines 86-104) and the matching loop      *)
(* (lines 124-160), then the output files (lines 165-173).                 *)
(***************************************************************************)
\* resources/unique_company_names.csv: "Ac" and "ac. B" both clean to "ac",
\* "c" cleans to "c" and "B." cleans to the empty key
CompanyPool ==
    { <<"A", "c">>,
      <<"a", "c", ".", " ", "B">>,
      <<"c">>,
      <<"B", ".">> }

\* a key the trial dictionary does not have
Absent == <<"absent">>

\* trial.get(key, ""), lines 125 and 127: "" for an absent key, the stored
\* value (null included) otherwise
Get(field) == IF field = Absent THEN <<>> ELSE field

\* the "Lead Sponsor" field of a trial: "", "AC", "c (N)", null or absent
LeadPool ==
    { <<>>,
      <<"A", "C">>,
      <<"c", " ", "(", "N", ")">>,
      None,
      Absent }

\* the "Collaborators" field: "", "c,AC", "B., ,c (N)" or null
CollabPool ==
    { <<>>,
      <<"c", ",", "A", "C">>,
      <<"B", ".", ",", " ", ",", "c", " ", "(", "N", ")">>,
      None }

SeqsUpTo(S, n) == UNION {[1..k -> S] : k \in 0..n}

\* str.split(","): the pieces between the commas
RECURSIVE SplitComma(_)
SplitComma(s) ==
    LET commas == Positions(s, ",")
    IN  IF commas = {} THEN <<s>>
        ELSE <<SubSeq(s, 1, Min(commas) - 1)>>
                 \o SplitComma(SubSeq(s, Min(commas) + 1, Len(s)))

\* lines 126-128: [c.strip() for c in ....split(",") if c.strip()]
CollabList(field) ==
    LET pieces == SplitComma(field)
        stripped == [i \in 1..Len(pieces) |-> Strip(pieces[i])]
    IN  SelectSeq(stripped, LAMBDA c : c # <<>>)

\* ", ".join(collab_list), line 160
RECURSIVE JoinComma(_)
JoinComma(l) ==
    IF l = <<>> THEN <<>>
    ELSE IF Len(l) = 1 THEN l[1]
    ELSE l[1] \o <<",", " ">> \o JoinComma(Tail(l))

\* bp in text: bp is a substring of text
Contains(text, bp) ==
    \E p \in 1..(Len(text) + 1) :
        /\ p + Len(bp) - 1 <= Len(text)
        /\ SubSeq(text, p, p + Len(bp) - 1) = bp

\* any(bp in text.lower() for bp in banned_phrases), lines 131 and 159
ContainsBanned(text, phrases) ==
    \E b \in 1..Len(phrases) : Contains(Lower(text), phrases[b])

InitAgg ==
    /\ business_suffixes = << <<"b">> >>
    /\ banned_phrases = << <<"n">> >>
    /\ company_names \in SeqsUpTo(CompanyPool, MaxCompanies)
    /\ pc = "index"
    /\ idx = 0
    /\ temp_map = <<>>
    /\ unique_cleaned_map = <<>>
    /\ n_trials = 0
    /\ known_companies = <<>>
    /\ unknown_trials = <<>>
    /\ lead_sponsors = {}
    /\ written = {}
    /\ last = NoLast
    /\ trial = NoTrial
    /\ CleanIdle
    /\ HubIdle
    /\ ExtIdle

\* the mutant: the empty key is stored like any other
AddToTempMapAnyKey(m, key, raw) ==
    IF key \in DOMAIN m
    THEN [m EXCEPT ![key] = Append(@, raw)]
    ELSE m @@ (key :> <<raw>>)

\* lines 89-90: if key: temp_map[key].append(raw)
AddToTempMap(m, key, raw) ==
    IF key = <<>> THEN m
    ELSE IF key \in DOMAIN m
         THEN [m EXCEPT ![key] = Append(@, raw)]
         ELSE m @@ (key :> <<raw>>)

\* lines 87-90: one iteration of the loop over company_names
IndexName ==
    /\ pc = "index"
    /\ idx < Len(company_names)
    /\ LET raw == company_names[idx + 1]
           key == clean_company_name(raw, business_suffixes)
       IN  temp_map' = AddToTempMap(temp_map, key, raw)
    /\ idx' = idx + 1
    /\ UNCHANGED <<pc, company_names, unique_cleaned_map, n_trials,
                   known_companies, unknown_trials, lead_sponsors, written, last,
                   trial, cleanVars, confVars, hubVars, extVars>>

\* the mutant: every key keeps the first raw name seen, collisions included
UniqueMapFirstWins(m) ==
    [key \in DOMAIN m |-> m[key][1]]

\* lines 96-100: only the keys with exactly one raw name are kept
UniqueMap(m) ==
    [key \in {k \in DOMAIN m : Len(m[k]) = 1} |-> m[key][1]]

\* lines 96-104: the index is built and saved when the loop has ended
BuildUnique ==
    /\ pc = "index"
    /\ idx = Len(company_names)
    /\ unique_cleaned_map' = UniqueMap(temp_map)
    /\ written' = written \cup {"cleaned_company_names.json"}
    /\ pc' = "match"
    /\ UNCHANGED <<company_names, idx, temp_map, n_trials, known_companies,
                   unknown_trials, lead_sponsors, last, trial,
                   cleanVars, confVars, hubVars, extVars>>

\* the mutant: .lower() forgotten, the phrase is looked for in the raw text
BannedLeadCaseSensitive(lead_raw, phrases) ==
    \E b \in 1..Len(phrases) : Contains(lead_raw, phrases[b])

\* line 131: the lead sponsor contains a banned phrase
BannedLead(lead_raw, phrases) == ContainsBanned(lead_raw, phrases)

\* the mutant: the loop goes on after a hit (no break)
RECURSIVE ScanCollaboratorsNoBreak(_, _, _)
ScanCollaboratorsNoBreak(collab_list, index, suffixes) ==
    IF collab_list = <<>> THEN [matched |-> {}, looked |-> <<>>]
    ELSE LET collab_raw == Head(collab_list)
             collab_key == clean_company_name(collab_raw, suffixes)
             rest == ScanCollaboratorsNoBreak(Tail(collab_list), index, suffixes)
         IN  [matched |-> (IF collab_key \in DOMAIN index
                           THEN {index[collab_key]} ELSE {}) \cup rest.matched,
              looked |-> <<collab_raw>> \o rest.looked]

\* the mutant: a collaborator that contains a banned phrase is passed over
RECURSIVE ScanCollaboratorsSkipBanned(_, _, _)
ScanCollaboratorsSkipBanned(collab_list, index, suffixes) ==
    IF collab_list = <<>> THEN [matched |-> {}, looked |-> <<>>]
    ELSE LET collab_raw == Head(collab_list)
             collab_key == clean_company_name(collab_raw, suffixes)
         IN  IF ContainsBanned(collab_raw, banned_phrases)
             THEN ScanCollaboratorsSkipBanned(Tail(collab_list), index, suffixes)
             ELSE IF collab_key \in DOMAIN index
             THEN [matched |-> {index[collab_key]}, looked |-> <<collab_raw>>]
             ELSE LET rest == ScanCollaboratorsSkipBanned(Tail(collab_list),
                                                         index, suffixes)
                  IN  [matched |-> rest.matched,
                       looked |-> <<collab_raw>> \o rest.looked]

\* lines 143-147: the collaborators in order, up to the first whose key is in
\* the index; looked lists the collaborators whose key was looked up
RECURSIVE ScanCollaborators(_, _, _)
ScanCollaborators(collab_list, index, suffixes) ==
    IF collab_list = <<>> THEN [matched |-> {}, looked |-> <<>>]
    ELSE LET collab_raw == Head(collab_list)
             collab_key == clean_company_name(collab_raw, suffixes)
         IN  IF collab_key \in DOMAIN index
             THEN [matched |-> {index[collab_key]}, looked |-> <<collab_raw>>]
             ELSE LET rest == ScanCollaborators(Tail(collab_list), index, suffixes)
                  IN  [matched |-> rest.matched,
                       looked |-> <<collab_raw>> \o rest.looked]

\* the mutant: the collaborators are scanned whether or not the lead matched
MatchTrialAlwaysCollabs(lead_raw, collab_list, index, suffixes) ==
    LET lead_key == clean_company_name(lead_raw, suffixes)
        byLead == IF lead_key \in DOMAIN index THEN {index[lead_key]} ELSE {}
        scan == ScanCollaborators(collab_list, index, suffixes)
    IN  [matched |-> byLead \cup scan.matched, looked |-> scan.looked]

\* lines 134-147: the lead sponsor first, the collaborators only if it does
\* not match
MatchTrial(lead_raw, collab_list, index, suffixes) ==
    LET lead_key == clean_company_name(lead_raw, suffixes)
        byLead == IF lead_key \in DOMAIN index THEN {index[lead_key]} ELSE {}
    IN  IF byLead # {}
        THEN [matched |-> byLead, looked |-> <<>>]
        ELSE ScanCollaborators(collab_list, index, suffixes)

\* AddTrial with the count of a company already present left as it is
AddTrialCountsOnce(known, matched, t) ==
    [company \in DOMAIN known \cup matched |->
        IF company \in matched
        THEN IF company \in DOMAIN known
             THEN [trial_count |-> known[company].trial_count,
                   trials |-> Append(known[company].trials, t)]
             ELSE [trial_count |-> 1, trials |-> <<t>>]
        ELSE known[company]]

\* lines 151-154: the trial is counted and appended under each matched company
AddTrial(known, matched, t) ==
    [company \in DOMAIN known \cup matched |->
        IF company \in matched
        THEN IF company \in DOMAIN known
             THEN [trial_count |-> known[company].trial_count + 1,
                   trials |-> Append(known[company].trials, t)]
             ELSE [trial_count |-> 1, trials |-> <<t>>]
        ELSE known[company]]

\* lines 124-160: one iteration of the loop over trials_data.  A null field
\* makes .strip() / .split() raise AttributeError, which nothing catches: the
\* script ends there.
ProcessTrial ==
    /\ pc = "match"
    /\ n_trials < MaxTrials
    /\ \E lead \in LeadPool, collabs \in CollabPool :
          LET t == [id |-> n_trials + 1, lead |-> lead, collabs |-> collabs]
          IN  /\ trial' = t
              /\ IF Get(lead) = None \/ Get(collabs) = None
                 THEN /\ pc' = "crashed"
                      /\ UNCHANGED <<n_trials, known_companies, unknown_trials,
                                     lead_sponsors, last>>
                 ELSE LET lead_raw == Strip(Get(lead))
                          collab_list == CollabList(Get(collabs))
                      IN  /\ pc' = pc
                          /\ n_trials' = n_trials + 1
                          /\ IF BannedLead(lead_raw, banned_phrases)
                             THEN /\ last' = [trial |-> t, skipped |-> TRUE,
                                              matched |-> {}, looked |-> <<>>]
                                  /\ UNCHANGED <<known_companies, unknown_trials,
                                                 lead_sponsors>>
                             ELSE LET m == MatchTrial(lead_raw, collab_list,
                                                      unique_cleaned_map,
                                                      business_suffixes)
                                  IN  /\ last' = [trial |-> t, skipped |-> FALSE,
                                                  matched |-> m.matched,
                                                  looked |-> m.looked]
                                      /\ known_companies' =
                                             AddTrial(known_companies, m.matched, t)
                                      /\ unknown_trials' =
                                             IF m.matched = {}
                                             THEN Append(unknown_trials, t)
                                             ELSE unknown_trials
                                      /\ lead_sponsors' =
                                             IF \A i \in 1..Len(collab_list) :
                                                   ~ContainsBanned(collab_list[i],
                                                                   banned_phrases)
                                             THEN lead_sponsors \cup
                                                      {<<lead_raw,
                                                         JoinComma(collab_list)>>}
                                             ELSE lead_sponsors
    /\ UNCHANGED <<company_names, idx, temp_map, unique_cleaned_map, written,
                   cleanVars, confVars, hubVars, extVars>>

\* lines 165-173: the loop has ended, the three result files are written
WriteOutputs ==
    /\ pc = "match"
    /\ written' = written \cup {"known_companies.json", "unknown_trials.json",
                                "lead_sponsors.txt"}
    /\ pc' = "done"
    /\ UNCHANGED <<company_names, idx, temp_map, unique_cleaned_map, n_trials,
                   known_companies, unknown_trials, lead_sponsors, last, trial,
                   cleanVars, confVars, hubVars, extVars>>

NextAgg == IndexName \/ BuildUnique \/ ProcessTrial \/ WriteOutputs

SpecAgg == InitAgg /\ [][NextAgg]_vars

(***************************************************************************)
(* Claims about run_aggregation.py (checked under SpecAgg).                *)
(***************************************************************************)
KeyOf(raw) == clean_company_name(raw, business_suffixes)

\* the key of each entry of the company-name list
CompanyKeys == [i \in 1..Len(company_names) |-> KeyOf(company_names[i])]

\* the entries of the company-name list that reduce to key
ProducersIn(keys, key) == {i \in 1..Len(keys) : keys[i] = key}
Producers(key) == ProducersIn(CompanyKeys, key)

\* two or more entries reduce to key
CollidingIn(keys, key) == Cardinality(ProducersIn(keys, key)) >= 2
Colliding(key) == CollidingIn(CompanyKeys, key)

IndexBuilt == pc \in {"match", "done", "crashed"}

InSeq(x, l) == \E i \in 1..Len(l) : l[i] = x

\* the companies whose trial list holds trial t
HoldersOf(t) == {c \in DOMAIN known_companies : InSeq(t, known_companies[c].trials)}

\* the latest iteration of the matching loop went past the banned-phrase test
Matched1 == last.trial.id > 0 /\ ~last.skipped

LastLeadKey == KeyOf(Strip(Get(last.trial.lead)))
LastCollabs == CollabList(Get(last.trial.collabs))

\* the keys the latest trial could match through
LastCandidateKeys ==
    {LastLeadKey} \cup {KeyOf(LastCollabs[i]) : i \in 1..Len(LastCollabs)}

\* C1: a key that two or more entries of the company-name list reduce to is
\* not a key of unique_cleaned_map, no company with such a key ever holds a
\* trial, and a trial all of whose candidate keys are colliding (or nobody's)
\* ends in unknown_trials.
C1_CollidingKeysExcluded ==
    IndexBuilt =>
        LET keys == CompanyKeys
        IN  /\ \A i \in 1..Len(keys) :
                  CollidingIn(keys, keys[i]) =>
                      keys[i] \notin DOMAIN unique_cleaned_map
            /\ \A c \in DOMAIN known_companies : ~CollidingIn(keys, KeyOf(c))
            /\ (Matched1 /\ \A k \in LastCandidateKeys :
                                CollidingIn(keys, k) \/ ProducersIn(keys, k) = {}) =>
                  /\ last.matched = {}
                  /\ HoldersOf(last.trial) = {}
                  /\ InSeq(last.trial, unknown_trials)

\* two entries collide on the lead sponsor's key and the trial went to
\* unknown_trials
C1_Witness ==
    /\ IndexBuilt
    /\ Matched1
    /\ Colliding(LastLeadKey)
    /\ \E i, j \in Producers(LastLeadKey) : company_names[i] # company_names[j]
    /\ InSeq(last.trial, unknown_trials)

\* C2: when the lead sponsor's key is in the index (company A), no
\* collaborator is looked up and the trial is attributed to A and to nobody
\* else.
C2_LeadMatchWins ==
    (Matched1 /\ LastLeadKey \in DOMAIN unique_cleaned_map) =>
        /\ last.matched = {unique_cleaned_map[LastLeadKey]}
        /\ last.looked = <<>>
        /\ HoldersOf(last.trial) = {unique_cleaned_map[LastLeadKey]}
        /\ ~InSeq(last.trial, unknown_trials)

\* the lead sponsor matched A while the first collaborator's key is in the
\* index for another company B
C2_Witness ==
    /\ Matched1
    /\ LastLeadKey \in DOMAIN unique_cleaned_map
    /\ LastCollabs # <<>>
    /\ KeyOf(LastCollabs[1]) \in DOMAIN unique_cleaned_map
    /\ unique_cleaned_map[KeyOf(LastCollabs[1])] # unique_cleaned_map[LastLeadKey]
    /\ HoldersOf(last.trial) = {unique_cleaned_map[LastLeadKey]}

\* the positions of the latest trial's collaborators whose key is in the index
LastHits == {i \in 1..Len(LastCollabs) : KeyOf(LastCollabs[i]) \in DOMAIN unique_cleaned_map}

\* C3: when the lead sponsor does not match, the collaborators are looked up in
\* their listed order up to and including the first whose key is in the index;
\* the trial is attributed to that collaborator's company only (to nobody when
\* no collaborator matches).
C3_FirstCollaboratorWins ==
    (Matched1 /\ LastLeadKey \notin DOMAIN unique_cleaned_map) =>
        IF LastHits = {}
        THEN /\ last.looked = LastCollabs
             /\ last.matched = {}
             /\ HoldersOf(last.trial) = {}
        ELSE LET first == LastCollabs[Min(LastHits)]
             IN  /\ last.looked = SubSeq(LastCollabs, 1, Min(LastHits))
                 /\ last.matched = {unique_cleaned_map[KeyOf(first)]}
                 /\ HoldersOf(last.trial) = {unique_cleaned_map[KeyOf(first)]}
                 /\ ~InSeq(last.trial, unknown_trials)

\* the lead did not match, two collaborators match two different companies and
\* the trial went to the first one's company
C3_Witness ==
    /\ Matched1
    /\ LastLeadKey \notin DOMAIN unique_cleaned_map
    /\ \E i, j \in LastHits :
          /\ i < j
          /\ unique_cleaned_map[KeyOf(LastCollabs[i])]
                 # unique_cleaned_map[KeyOf(LastCollabs[j])]
    /\ HoldersOf(last.trial) = {unique_cleaned_map[KeyOf(LastCollabs[Min(LastHits)])]}

\* text contains phrase, letter case ignored
ContainsIgnoringCase(text, phrase) ==
    \E p \in 0..Len(text) :
        /\ p + Len(phrase) <= Len(text)
        /\ \A k \in 1..Len(phrase) : ToLower(text[p + k]) = ToLower(phrase[k])

LeadIsBanned(t) ==
    \E b \in 1..Len(banned_phrases) :
        ContainsIgnoringCase(Get(t.lead), banned_phrases[b])

\* C4: a trial whose lead sponsor contains a banned phrase is in no company's
\* trial list and not in unknown_trials, and it is counted in no trial_count:
\* every trial_count is the number of trials listed, none of them banned.
C4_BannedLeadExcluded ==
    /\ \A c \in DOMAIN known_companies :
          /\ \A i \in 1..Len(known_companies[c].trials) :
                ~LeadIsBanned(known_companies[c].trials[i])
          /\ known_companies[c].trial_count = Len(known_companies[c].trials)
    /\ \A i \in 1..Len(unknown_trials) : ~LeadIsBanned(unknown_trials[i])
    /\ (last.trial.id > 0 /\ LeadIsBanned(last.trial)) =>
          /\ HoldersOf(last.trial) = {}
          /\ ~InSeq(last.trial, unknown_trials)

\* a trial with a banned lead sponsor was skipped although its lead sponsor's
\* key and a collaborator's key are both in the index
C4_Witness ==
    /\ last.trial.id > 0
    /\ last.skipped
    /\ LeadIsBanned(last.trial)
    /\ LastLeadKey \in DOMAIN unique_cleaned_map
    /\ LastHits # {}
    /\ known_companies = <<>>
    /\ unknown_trials = <<>>

\* the latest trial's lead sponsor and collaborators, those that clean to the
\* empty key left out
LastNonEmptyKeys == LastCandidateKeys \ {<<>>}

\* C11: the empty string is never a key of temp_map or unique_cleaned_map, a
\* company name that cleans to the empty string never holds a trial, and a
\* trial is only ever matched through a non-empty key of its lead sponsor or
\* collaborators: when all of them clean to the empty string it is unmatched.
C11_EmptyKeyNeverMatches ==
    /\ <<>> \notin DOMAIN temp_map
    /\ <<>> \notin DOMAIN unique_cleaned_map
    /\ \A c \in DOMAIN known_companies : KeyOf(c) # <<>>
    /\ Matched1 =>
          /\ last.matched \subseteq
                 {unique_cleaned_map[k] :
                     k \in LastNonEmptyKeys \cap DOMAIN unique_cleaned_map}
          /\ LastNonEmptyKeys = {} =>
                 /\ last.matched = {}
                 /\ InSeq(last.trial, unknown_trials)

\* the company list holds "B." (the empty key); a trial whose lead sponsor is
\* "" and whose first collaborator is "B." was matched through its second
\* collaborator only
C11_Witness ==
    /\ IndexBuilt
    /\ Matched1
    /\ \E i \in 1..Len(company_names) :
          company_names[i] # <<>> /\ KeyOf(company_names[i]) = <<>>
    /\ LastLeadKey = <<>>
    /\ Len(LastCollabs) >= 2
    /\ KeyOf(LastCollabs[1]) = <<>>
    /\ KeyOf(LastCollabs[2]) \in DOMAIN unique_cleaned_map
    /\ last.looked = LastCollabs
    /\ last.matched = {unique_cleaned_map[KeyOf(LastCollabs[2])]}

\* the matching loop has taken a trial from trials_data
TrialTaken == trial.id > 0

\* a field of the current trial is null
NullField == Get(trial.lead) = None \/ Get(trial.collabs) = None

\* the collaborators of the current trial (none when the field is null)
TrialCollabs ==
    IF Get(trial.collabs) = None THEN <<>> ELSE CollabList(Get(trial.collabs))

\* C12: once the loop has taken a trial whose Lead Sponsor is "", absent or
\* null and none of whose collaborators has a key in the index, the trial is
\* matched to no company and is in unknown_trials.
C12_NoLeadGoesToUnknown ==
    (/\ TrialTaken
     /\ trial.lead \in {<<>>, Absent, None}
     /\ \A i \in 1..Len(TrialCollabs) :
           KeyOf(TrialCollabs[i]) \notin DOMAIN unique_cleaned_map) =>
        /\ HoldersOf(trial) = {}
        /\ InSeq(trial, unknown_trials)

\* C13: a trial with a null Lead Sponsor or Collaborators field is skipped:
\* the loop has gone past it and the script has not ended on it.
C13_NullTrialSkipped ==
    (TrialTaken /\ NullField) =>
        /\ pc \in {"match", "done"}
        /\ n_trials >= trial.id

\* the number of places (positions of the companies' trial lists and of
\* unknown_trials) the trial t is recorded at
Occurrences(known, unknown, t) ==
    Cardinality({ca \in {<<c, i>> : c \in DOMAIN known, i \in 1..MaxTrials + 1} :
                    /\ ca[2] <= Len(known[ca[1]].trials)
                    /\ known[ca[1]].trials[ca[2]] = t})
        + Cardinality({i \in 1..Len(unknown) : unknown[i] = t})

\* the trials recorded in a company's list or in unknown_trials
Recorded(known, unknown) ==
    UNION {{known[c].trials[i] : i \in 1..Len(known[c].trials)} : c \in DOMAIN known}
        \cup {unknown[i] : i \in 1..Len(unknown)}

\* at every point of the matching loop: counts equal list lengths, a recorded
\* trial is recorded once, and the latest trial, when its lead sponsor holds
\* no banned phrase, is recorded once
C23_Partition ==
    /\ \A c \in DOMAIN known_companies :
          known_companies[c].trial_count = Len(known_companies[c].trials)
    /\ \A t \in Recorded(known_companies, unknown_trials) :
          Occurrences(known_companies, unknown_trials, t) = 1
    /\ (last.trial.id > 0 /\ ~LeadIsBanned(last.trial)) =>
          Occurrences(known_companies, unknown_trials, last.trial) = 1

\* a step of the script removes no recorded trial
C23_Kept ==
    Recorded(known_companies, unknown_trials)
        \subseteq Recorded(known_companies', unknown_trials')

\* C23: every trial the matching loop has gone through and whose lead sponsor
\* contains no banned phrase is recorded exactly once among the companies'
\* trial lists and unknown_trials, it stays so until the loop has ended, and
\* every company's trial_count is the length of its trials list.
C23_ExactlyOnce == []C23_Partition /\ [][C23_Kept]_vars

\* the loop has ended: one trial went to a company through a collaborator,
\* another is in unknown_trials
C23_Witness ==
    /\ pc = "done"
    /\ unknown_trials # <<>>
    /\ \E c \in DOMAIN known_companies :
          /\ known_companies[c].trial_count = 1
          /\ Get(known_companies[c].trials[1].lead) = <<>>

\* the latest trial was matched through a collaborator: the last one looked up
ThroughCollaborator == Matched1 /\ last.matched # {} /\ last.looked # <<>>

FirstBannedHit ==
    LET hits == {i \in LastHits : ContainsBanned(LastCollabs[i], banned_phrases)}
    IN  IF hits = {} THEN 0 ELSE Min(hits)

Scale == 10000
Pi == 31416
HalfPi == Pi \div 2
QuarterPi == Pi \div 4
radius_of_earth_km == 6371

Abs(x) == IF x < 0 THEN -x ELSE x

\* math.radians: hundredths of a degree to radians (pi / 180 = 0.017453)
Radians(cdeg) ==
    LET m == (Abs(cdeg) * 17453 + 5000) \div 10000
    IN  IF cdeg < 0 THEN -m ELSE m

\* math.sin on [0, pi]: sin(x) = sin(pi - x), then the Taylor series
Sin(x) ==
    LET y == IF x > HalfPi THEN Pi - x ELSE x
        y2 == (y * y) \div Scale
        p4 == Scale - y2 \div 72
        p3 == Scale - ((y2 * p4) \div Scale) \div 42
        p2 == Scale - ((y2 * p3) \div Scale) \div 20
        p1 == Scale - ((y2 * p2) \div Scale) \div 6
    IN  (y * p1) \div Scale

\* math.cos on [0, pi/2]: the Taylor series
Cos(x) ==
    LET x2 == (x * x) \div Scale
        q5 == Scale - x2 \div 90
        q4 == Scale - ((x2 * q5) \div Scale) \div 56
        q3 == Scale - ((x2 * q4) \div Scale) \div 30
        q2 == Scale - ((x2 * q3) \div Scale) \div 12
    IN  Scale - ((x2 * q2) \div Scale) \div 2

\* math.sqrt of n / Scale^2, in units of 1 / Scale: the largest r with r*r <= n
RECURSIVE ISqrtIn(_, _, _)
ISqrtIn(n, lo, hi) ==
    IF hi - lo <= 1 THEN lo
    ELSE LET mid == (lo + hi) \div 2
         IN  IF mid * mid <= n THEN ISqrtIn(n, mid, hi) ELSE ISqrtIn(n, lo, mid)

ISqrt(n) == IF n <= 0 THEN 0 ELSE ISqrtIn(n, 0, 2 * Scale)

\* atan(t) for 0 <= t <= tan(pi/8): the Taylor series
AtanSmall(t) ==
    LET t2 == (t * t) \div Scale
        r4 == Scale \div 7 - (t2 * (Scale \div 9)) \div Scale
        r3 == Scale \div 5 - (t2 * r4) \div Scale
        r2 == Scale \div 3 - (t2 * r3) \div Scale
        r1 == Scale - (t2 * r2) \div Scale
    IN  (t * r1) \div Scale

\* atan(n / d) for 0 <= n <= d, d > 0: atan(t) = pi/4 - atan((1 - t) / (1 + t))
AtanRatio(n, d) ==
    LET t == (n * Scale) \div d
    IN  IF t > 4142
        THEN QuarterPi - AtanSmall(((Scale - t) * Scale) \div (Scale + t))
        ELSE AtanSmall(t)

\* math.atan2(y, x) for x, y >= 0
Atan2(y, x) ==
    IF y = 0 THEN 0
    ELSE IF y > x THEN HalfPi - AtanRatio(x, y)
    ELSE AtanRatio(y, x)

\* the mutant: the factor cos(lat1) * cos(lat2) is left out
get_distanceNoCos(lat1, lon1, lat2, lon2) ==
    LET dlat == Radians(lat2) - Radians(lat1)
        dlon == Radians(lon2) - Radians(lon1)
        sdlat == Sin(Abs(dlat) \div 2)
        sdlon == Sin(Abs(dlon) \div 2)
        a == sdlat * sdlat + sdlon * sdlon
        c == 2 * Atan2(ISqrt(a), ISqrt(Scale * Scale - a))
    IN  (radius_of_earth_km * c) \div Scale

\* get_distance(lat1, lon1, lat2, lon2): the haversine formula
get_distance(lat1, lon1, lat2, lon2) ==
    LET rlat1 == Radians(lat1)
        rlon1 == Radians(lon1)
        rlat2 == Radians(lat2)
        rlon2 == Radians(lon2)
        dlat == rlat2 - rlat1
        dlon == rlon2 - rlon1
        sdlat == Sin(Abs(dlat) \div 2)
        sdlon == Sin(Abs(dlon) \div 2)
        coscos == (Cos(Abs(rlat1)) * Cos(Abs(rlat2))) \div Scale
        a == sdlat * sdlat + ((coscos * sdlon) \div Scale) * sdlon
        c == 2 * Atan2(ISqrt(a), ISqrt(Scale * Scale - a))
    IN  (radius_of_earth_km * c) \div Scale

(***************************************************************************)
(* find_closest_hub, app/core/hub_prox_calculator.py lines 6-36.           *)
(* An Optional value is <<>> for None and <<v>> for the value v.           *)
(***************************************************************************)
NoneValue == <<>>
Some(v) == <<v>>

\* float("inf"): above every distance get_distance can return
Inf == 1000000000

\* the mutant: the farthest hub is kept (the comparison is the wrong way round)
RECURSIVE ScanHubsFarthest(_, _, _, _, _)
ScanHubsFarthest(company_lat, company_lon, hub_list, min_distance, closest_hub) ==
    IF hub_list = <<>> THEN [closest_hub |-> closest_hub, min_distance |-> min_distance]
    ELSE LET hub == Head(hub_list)
             distance == get_distance(company_lat, company_lon,
                                      hub.latitude, hub.longitude)
         IN  IF min_distance = Inf \/ distance > min_distance
             THEN ScanHubsFarthest(company_lat, company_lon, Tail(hub_list),
                                   distance, Some(hub.city))
             ELSE ScanHubsFarthest(company_lat, company_lon, Tail(hub_list),
                                   min_distance, closest_hub)

\* the mutant: <= in place of <, so that the last of several tied hubs is kept
RECURSIVE ScanHubsLastTie(_, _, _, _, _)
ScanHubsLastTie(company_lat, company_lon, hub_list, min_distance, closest_hub) ==
    IF hub_list = <<>> THEN [closest_hub |-> closest_hub, min_distance |-> min_distance]
    ELSE LET hub == Head(hub_list)
             distance == get_distance(company_lat, company_lon,
                                      hub.latitude, hub.longitude)
         IN  IF distance <= min_distance
             THEN ScanHubsLastTie(company_lat, company_lon, Tail(hub_list),
                                  distance, Some(hub.city))
             ELSE ScanHubsLastTie(company_lat, company_lon, Tail(hub_list),
                                  min_distance, closest_hub)

\* lines 24-30: the loop over hubs, from the values of min_distance and
\* closest_hub before the hubs of hub_list
RECURSIVE ScanHubs(_, _, _, _, _)
ScanHubs(company_lat, company_lon, hub_list, min_distance, closest_hub) ==
    IF hub_list = <<>> THEN [closest_hub |-> closest_hub, min_distance |-> min_distance]
    ELSE LET hub == Head(hub_list)
             distance == get_distance(company_lat, company_lon,
                                      hub.latitude, hub.longitude)
         IN  IF distance < min_distance
             THEN ScanHubs(company_lat, company_lon, Tail(hub_list),
                           distance, Some(hub.city))
             ELSE ScanHubs(company_lat, company_lon, Tail(hub_list),
                           min_distance, closest_hub)

\* the mutant: >= in place of >, a hub exactly at the threshold is cut off
ApplyThresholdStrict(found, threshold) ==
    IF threshold > 0 /\ found.min_distance >= threshold
    THEN [hub |-> NoneValue, distance |-> NoneValue]
    ELSE [hub |-> found.closest_hub, distance |-> Some(found.min_distance)]

\* lines 32-36: the distance threshold, then the result pair
ApplyThreshold(found, threshold) ==
    IF threshold > 0 /\ found.min_distance > threshold
    THEN [hub |-> NoneValue, distance |-> NoneValue]
    ELSE [hub |-> found.closest_hub, distance |-> Some(found.min_distance)]

\* find_closest_hub(company_lat, company_lon, hubs, distance_threshold)
find_closest_hub(company_lat, company_lon, hub_list, threshold) ==
    ApplyThreshold(ScanHubs(company_lat, company_lon, hub_list, Inf, NoneValue),
                   threshold)

(***************************************************************************)
(* get_distance applied to one pair of points (SpecDist).                  *)
(***************************************************************************)
\* points (latitude, longitude) in hundredths of a degree: the origin, London,
\* New York, Boston, San Francisco, Paris, Tokyo, Basel and Sao Paulo
Origin == <<0, 0>>
London == <<5151, -13>>
NewYork == <<4071, -7401>>
Points ==
    { Origin, London, NewYork, <<4236, -7106>>, <<3777, -12242>>,
      <<4886, 235>>, <<3568, 13969>>, <<4756, 759>>, <<-2355, -4663>> }

InitDist ==
    /\ dist_args \in {p \o q : p \in Points, q \in Points}
    /\ dist_result = NoneValue
    /\ business_suffixes = <<>>
    /\ banned_phrases = <<>>
    /\ CleanIdle
    /\ AggIdle
    /\ HubIdle
    /\ GeoIdle
    /\ ParseIdle
    /\ ClsIdle
    /\ cleaned_company_names = <<>>
    /\ DiseaseIdle
    /\ ScrapeIdle
    /\ QueryIdle

\* one call of get_distance
CallDistance ==
    /\ dist_result = NoneValue
    /\ dist_result' = Some(get_distance(dist_args[1], dist_args[2],
                                        dist_args[3], dist_args[4]))
    /\ UNCHANGED <<dist_args, pipelineVars, diseaseVars, scrapeVars, queryVars>>

NextDist == CallDistance

SpecDist == InitDist /\ [][NextDist]_vars

\* C22: the distance from a point to itself (the origin in particular) is 0,
\* and the distance between London and New York, either way round, is
\* 5570 km within 20 km.
C22_HaversineSanity ==
    dist_result # NoneValue =>
        /\ (dist_args[1] = dist_args[3] /\ dist_args[2] = dist_args[4]) =>
              dist_result[1] = 0
        /\ dist_args \in {London \o NewYork, NewYork \o London} =>
              Abs(dist_result[1] - 5570) <= 20

\* get_distance has returned the distance from London to New York
C22_Witness ==
    /\ dist_args = London \o NewYork
    /\ dist_result # NoneValue
    /\ dist_result[1] > 0

(***************************************************************************)
(* run_hub_proximity_calculator, app/__init__.py lines 170-222.            *)
(***************************************************************************)
\* rows of the hub coordinates file (city, latitude, longitude); a field that
\* float() cannot parse is NoneValue.  Seen from (0, 0), N and S are both 80 km
\* away and F is 150 km away.
HubRowPool ==
    { [city |-> "N", latitude |-> Some(72), longitude |-> Some(0)],
      [city |-> "S", latitude |-> Some(-72), longitude |-> Some(0)],
      [city |-> "F", latitude |-> Some(135), longitude |-> Some(0)],
      [city |-> "X", latitude |-> NoneValue, longitude |-> Some(0)] }

\* the hub coordinates file: missing, or holding up to MaxHubs rows
HubFiles ==
    {[exists |-> FALSE, rows |-> <<>>]}
        \cup {[exists |-> TRUE, rows |-> r] : r \in SeqsUpTo(HubRowPool, MaxHubs)}

\* the default of the distance_threshold parameter
DefaultThreshold == -1

Thresholds == {DefaultThreshold, 0, 80, 100}

\* the data items: two companies at known coordinates ((0, 0) and (2.07, 0)),
\* and the same companies with a coordinate missing
DataPool ==
    { [company_id |-> 1, company_name |-> "Co1", address |-> "Addr1",
       latitude |-> Some(0), longitude |-> Some(0)],
      [company_id |-> 2, company_name |-> "Co2", address |-> "Addr2",
       latitude |-> Some(207), longitude |-> Some(0)],
      [company_id |-> 1, company_name |-> "Co1", address |-> "Addr1",
       latitude |-> NoneValue, longitude |-> Some(0)],
      [company_id |-> 2, company_name |-> "Co2", address |-> "Addr2",
       latitude |-> Some(0), longitude |-> NoneValue] }

NoneResult == [hub |-> NoneValue, distance |-> NoneValue]

InitHub ==
    /\ hpc = "load"
    /\ hub_file \in HubFiles
    /\ distance_threshold \in Thresholds
    /\ hubs = <<>>
    /\ hub_mapping = <<>>
    /\ n_items = 0
    /\ hub_calls = 0
    /\ hub_log = <<>>
    /\ business_suffixes = <<>>
    /\ banned_phrases = <<>>
    /\ CleanIdle
    /\ AggIdle
    /\ ExtIdle

\* float(row["latitude"]) and float(row["longitude"]) succeed
RowParses(row) == row.latitude # NoneValue /\ row.longitude # NoneValue

\* lines 195-199: the hub a row gives
HubOfRow(row) ==
    [city |-> row.city, latitude |-> row.latitude[1], longitude |-> row.longitude[1]]

\* the mutant: a row that cannot be read is left out and the others are kept
ReadHubsSkippingRows(file) ==
    IF ~file.exists THEN [raised |-> TRUE, hubs |-> <<>>]
    ELSE LET good == SelectSeq(file.rows, RowParses)
         IN  [raised |-> FALSE, hubs |-> [i \in 1..Len(good) |-> HubOfRow(good[i])]]

\* lines 190-201: the hubs read from the file; a missing file or a row that
\* cannot be read raises ValueError
ReadHubs(file) ==
    IF ~file.exists \/ \E i \in 1..Len(file.rows) : ~RowParses(file.rows[i])
    THEN [raised |-> TRUE, hubs |-> <<>>]
    ELSE [raised |-> FALSE,
          hubs |-> [i \in 1..Len(file.rows) |-> HubOfRow(file.rows[i])]]

\* lines 190-201: the hub file is read; any failure raises ValueError
LoadHubs ==
    /\ hpc = "load"
    /\ LET read == ReadHubs(hub_file)
       IN  IF read.raised
           THEN /\ hpc' = "raised"
                /\ hubs' = hubs
           ELSE /\ hpc' = "calc"
                /\ hubs' = read.hubs
    /\ UNCHANGED <<hub_file, distance_threshold, hub_mapping, n_items, hub_calls,
                   hub_log, cleanVars, confVars, aggVars, extVars>>

\* the mutant: a truthiness test, which takes the coordinate 0 for a missing one
HasCoordinatesTruthy(item) ==
    /\ item.latitude \notin {NoneValue, Some(0)}
    /\ item.longitude \notin {NoneValue, Some(0)}

\* line 212, negated: company_lat is not None and company_lon is not None
HasCoordinates(item) ==
    /\ item.latitude # NoneValue
    /\ item.longitude # NoneValue

\* hub_mapping[key] = value
Put(mapping, key, value) ==
    [k \in DOMAIN mapping \cup {key} |-> IF k = key THEN value ELSE mapping[k]]

\* lines 205-220: one iteration of the loop over data
ProcessItem ==
    /\ hpc = "calc"
    /\ n_items < MaxItems
    /\ \E item \in DataPool :
          LET key == <<item.company_id, item.company_name, item.address>>
          IN  IF ~HasCoordinates(item)
              THEN /\ hub_mapping' = Put(hub_mapping, key, NoneResult)
                   /\ hub_calls' = hub_calls
                   /\ hub_log' = Append(hub_log, [item |-> item, called |-> FALSE,
                                                  result |-> NoneResult])
              ELSE LET result == find_closest_hub(item.latitude[1], item.longitude[1],
                                                  hubs, distance_threshold)
                   IN  /\ hub_mapping' = Put(hub_mapping, key, result)
                       /\ hub_calls' = hub_calls + 1
                       /\ hub_log' = Append(hub_log, [item |-> item, called |-> TRUE,
                                                      result |-> result])
    /\ n_items' = n_items + 1
    /\ UNCHANGED <<hpc, hub_file, hubs, distance_threshold,
                   cleanVars, confVars, aggVars, extVars>>

\* line 222: return hub_mapping
ReturnMapping ==
    /\ hpc = "calc"
    /\ hpc' = "returned"
    /\ UNCHANGED <<hub_file, hubs, distance_threshold, hub_mapping, n_items,
                   hub_calls, hub_log, cleanVars, confVars, aggVars, extVars>>

NextHub == LoadHubs \/ ProcessItem \/ ReturnMapping

SpecHub == InitHub /\ [][NextHub]_vars

(***************************************************************************)
(* Claims about find_closest_hub and its caller (checked under SpecHub).   *)
(***************************************************************************)
\* the distance from the point of log entry e to the i-th hub
DistTo(e, i) ==
    get_distance(e.item.latitude[1], e.item.longitude[1],
                 hubs[i].latitude, hubs[i].longitude)

\* all of them, in the order of the hub list
DistsOf(e) == [i \in 1..Len(hubs) |-> DistTo(e, i)]

MinOf(ds) == Min({ds[i] : i \in 1..Len(ds)})

\* the threshold cuts the result off
CutOff(ds) == distance_threshold > 0 /\ MinOf(ds) > distance_threshold

\* the log entries of the find_closest_hub calls made with a non-empty hub list
Calls == {k \in 1..Len(hub_log) : hub_log[k].called /\ hubs # <<>>}

\* C5: when no threshold cutoff applies, find_closest_hub returns a hub of the
\* list whose distance to the point is at most the distance to every hub of the
\* list, together with exactly that distance.
C5_ClosestHubMinimal ==
    \A k \in Calls :
        LET e == hub_log[k]
            ds == DistsOf(e)
        IN  ~CutOff(ds) =>
                \E i \in 1..Len(hubs) :
                    /\ e.result.hub = Some(hubs[i].city)
                    /\ e.result.distance = Some(ds[i])
                    /\ \A j \in 1..Len(hubs) : ds[i] <= ds[j]

\* a call returned the second hub of the list, which is strictly nearer than
\* the first
C5_Witness ==
    \E k \in Calls :
        LET e == hub_log[k]
            ds == DistsOf(e)
        IN  /\ Len(hubs) >= 2
            /\ ds[2] < ds[1]
            /\ e.result.hub = Some(hubs[2].city)
            /\ e.result.distance = Some(ds[2])

\* C6: among several hubs at the minimum distance, the one that comes first in
\* the hub list is returned (whatever the order of the list).
C6_FirstTieWins ==
    \A k \in Calls :
        LET e == hub_log[k]
            ds == DistsOf(e)
        IN  ~CutOff(ds) =>
                e.result.hub =
                    Some(hubs[Min({i \in 1..Len(hubs) : ds[i] = MinOf(ds)})].city)

\* the list <<S, N>>, both hubs at the minimum distance: S was returned
C6_Witness ==
    \E k \in Calls :
        LET e == hub_log[k]
            ds == DistsOf(e)
        IN  /\ Len(hubs) >= 2
            /\ hubs[1].city = "S" /\ hubs[2].city = "N"
            /\ ds[1] = ds[2]
            /\ ds[1] = MinOf(ds)
            /\ e.result.hub = Some("S")

\* C7: for a non-empty hub list the result is (None, None) exactly when
\* distance_threshold > 0 and the minimum distance is strictly greater than it;
\* otherwise neither component is None.
C7_ThresholdCutoff ==
    \A k \in Calls :
        LET e == hub_log[k]
            ds == DistsOf(e)
        IN  /\ (e.result = NoneResult) <=> CutOff(ds)
            /\ e.result # NoneResult =>
                  (e.result.hub # NoneValue /\ e.result.distance # NoneValue)

\* threshold 100: a point whose nearest hub is 150 km away (to the kilometre
\* the fixed-point distance resolves) got (None, None), a point whose nearest
\* hub is 80 km away got that hub
C7_Witness ==
    /\ distance_threshold = 100
    /\ \E k1, k2 \in Calls :
          /\ MinOf(DistsOf(hub_log[k1])) \in 149..151
          /\ hub_log[k1].result = NoneResult
          /\ MinOf(DistsOf(hub_log[k2])) \in 79..81
          /\ hub_log[k2].result.hub # NoneValue
          /\ hub_log[k2].result.distance = Some(MinOf(DistsOf(hub_log[k2])))

\* C8: find_closest_hub is called for exactly the items whose latitude and
\* longitude are both not None (0 is a coordinate); an item with a None
\* coordinate gets (None, None), and the mapping entry of the latest item is
\* its result.
C8_MissingCoordinates ==
    /\ \A k \in 1..Len(hub_log) :
          LET e == hub_log[k]
          IN  IF e.item.latitude = NoneValue \/ e.item.longitude = NoneValue
              THEN ~e.called /\ e.result = NoneResult
              ELSE /\ e.called
                   /\ e.result = find_closest_hub(e.item.latitude[1],
                                                  e.item.longitude[1],
                                                  hubs, distance_threshold)
    /\ hub_calls = Cardinality({k \in 1..Len(hub_log) :
                                   /\ hub_log[k].item.latitude # NoneValue
                                   /\ hub_log[k].item.longitude # NoneValue})
    /\ hub_log # <<>> =>
          LET e == hub_log[Len(hub_log)]
              key == <<e.item.company_id, e.item.company_name, e.item.address>>
          IN  key \in DOMAIN hub_mapping /\ hub_mapping[key] = e.result

\* an item without latitude was mapped to (None, None) without a call, after an
\* item at latitude 0 and longitude 0 had been resolved to a hub
C8_Witness ==
    /\ Len(hub_log) >= 2
    /\ hub_calls = 1
    /\ hub_log[1].item.latitude = Some(0)
    /\ hub_log[1].item.longitude = Some(0)
    /\ hub_log[1].called
    /\ hub_log[1].result.hub # NoneValue
    /\ hub_log[2].item.latitude = NoneValue
    /\ ~hub_log[2].called
    /\ hub_mapping[<<hub_log[2].item.company_id, hub_log[2].item.company_name,
                     hub_log[2].item.address>>] = NoneResult

\* the hub file is missing or one of its rows cannot be read
HubFileUnreadable ==
    ~hub_file.exists \/ \E i \in 1..Len(hub_file.rows) : ~RowParses(hub_file.rows[i])

\* C16: when the hub file is missing or a row of it cannot be read, the
\* function raises as soon as it has read the file: no company is ever
\* resolved and no mapping, not even a partial one, is built or returned.
C16_FailFast ==
    (HubFileUnreadable /\ hpc # "load") =>
        /\ hpc = "raised"
        /\ hubs = <<>>
        /\ n_items = 0
        /\ hub_calls = 0
        /\ hub_log = <<>>
        /\ hub_mapping = <<>>

\* the function raised on a file whose first row is good and whose second row
\* has no readable latitude
C16_Witness ==
    /\ hpc = "raised"
    /\ hub_file.exists
    /\ Len(hub_file.rows) >= 2
    /\ RowParses(hub_file.rows[1])
    /\ ~RowParses(hub_file.rows[2])
    /\ hub_mapping = <<>>

\* the identity tuple of a data item
IdentityOf(item) == <<item.company_id, item.company_name, item.address>>

\* the data items consumed so far that carry the identity tuple key; each of
\* them wrote hub_mapping[key] once
WritesOf(key) == {k \in 1..Len(hub_log) : IdentityOf(hub_log[k].item) = key}

\* C17: every entry of the mapping has been written exactly once, by the one
\* item that carries its identity tuple, and holds what that item wrote.
C17_WrittenOnce ==
    \A key \in DOMAIN hub_mapping :
        /\ Cardinality(WritesOf(key)) = 1
        /\ \A k \in WritesOf(key) : hub_mapping[key] = hub_log[k].result

\* C24: every result of find_closest_hub is (None, None) or a pair of the
\* city of one of the hubs and a finite distance: the hub is None exactly when
\* the distance is None.
C24_NoneOrHubAndDistance ==
    \A k \in {n \in 1..Len(hub_log) : hub_log[n].called} :
        LET result == hub_log[k].result
        IN  /\ (result.hub = NoneValue) <=> (result.distance = NoneValue)
            /\ result.distance # NoneValue =>
                  /\ result.distance[1] < Inf
                  /\ \E i \in 1..Len(hubs) : result.hub = Some(hubs[i].city)

(***************************************************************************)
(* run_geocoding, app/__init__.py lines 121-167, with geocode_address,     *)
(* app/core/address_geocoder.py, run on the threads of the executor.       *)
(***************************************************************************)
\* what AzureMapsService.get_coordinates does for one address: it raises, it
\* returns the coordinates of the first feature, or it returns (None, None)
GeocoderOutcomes ==
    { [raises |-> TRUE, latitude |-> NoneValue, longitude |-> NoneValue],
      [raises |-> FALSE, latitude |-> Some(4071), longitude |-> Some(-7401)],
      [raises |-> FALSE, latitude |-> NoneValue, longitude |-> NoneValue] }

\* (company id, company name, address) of one company; two companies may share
\* an id and a name
CompanyTriples ==
    { [company_id |-> 1, company_name |-> "Co1", address |-> "Addr1"],
      [company_id |-> 2, company_name |-> "Co2", address |-> "Addr2"],
      [company_id |-> 1, company_name |-> "Co1", address |-> "Addr2"] }

\* the three argument lists, of equal length
GeoArgs ==
    { [company_ids |-> [i \in 1..Len(t) |-> t[i].company_id],
       company_names |-> [i \in 1..Len(t) |-> t[i].company_name],
       company_addresses |-> [i \in 1..Len(t) |-> t[i].address]] :
      t \in SeqsUpTo(CompanyTriples, MaxAddresses) }

NoRecord ==
    [company_id |-> 0, company_name |-> "", address |-> "",
     latitude |-> NoneValue, longitude |-> NoneValue]

\* the mutant: no try/except, the geocoder's exception leaves the function
geocode_addressUncaught(outcome, address, company_id, company_name) ==
    IF outcome.raises
    THEN [raised |-> TRUE, value |-> NoRecord]
    ELSE [raised |-> FALSE,
          value |-> [company_id |-> company_id, company_name |-> company_name,
                     address |-> address,
                     latitude |-> outcome.latitude,
                     longitude |-> outcome.longitude]]

\* geocode_address, lines 18-35: the record it returns; it never raises
geocode_address(outcome, address, company_id, company_name) ==
    [raised |-> FALSE,
     value |-> [company_id |-> company_id, company_name |-> company_name,
                address |-> address,
                latitude |-> IF outcome.raises THEN NoneValue
                             ELSE outcome.latitude,
                longitude |-> IF outcome.raises THEN NoneValue
                              ELSE outcome.longitude]]

\* a future just submitted
PendingFuture ==
    [done |-> FALSE, raised |-> FALSE, value |-> NoRecord, yielded |-> FALSE]

NumAddresses == Len(geo_args.company_ids)

InitGeo ==
    /\ gpc = "submit"
    /\ geo_args \in GeoArgs
    /\ futures = <<>>
    /\ results = <<>>
    /\ geo_outcome = <<>>
    /\ business_suffixes = <<>>
    /\ banned_phrases = <<>>
    /\ CleanIdle
    /\ AggIdle
    /\ HubIdle
    /\ ParseIdle
    /\ ClsIdle
    /\ cleaned_company_names = <<>>
    /\ MoreIdle

\* lines 150-155: executor.submit for the next index
Submit ==
    /\ gpc = "submit"
    /\ Len(futures) < NumAddresses
    /\ futures' = Append(futures, PendingFuture)
    /\ UNCHANGED <<gpc, geo_args, results, geo_outcome,
                   cleanVars, confVars, aggVars, hubVars, parseVars, clsVars,
                   testVars, moreVars>>

\* a worker thread runs geocode_address for a submitted index
Worker ==
    /\ \E i \in DOMAIN futures, outcome \in GeocoderOutcomes :
          /\ ~futures[i].done
          /\ LET r == geocode_address(outcome, geo_args.company_addresses[i],
                                      geo_args.company_ids[i],
                                      geo_args.company_names[i])
             IN  futures' = [futures EXCEPT ![i] =
                                [done |-> TRUE, raised |-> r.raised,
                                 value |-> r.value, yielded |-> FALSE]]
          /\ geo_outcome' = geo_outcome @@ (i :> outcome)
    /\ UNCHANGED <<gpc, geo_args, results,
                   cleanVars, confVars, aggVars, hubVars, parseVars, clsVars,
                   testVars, moreVars>>

\* lines 157-162: as_completed yields a finished future; its result is
\* appended, its exception is printed and dropped
Collect ==
    /\ gpc = "submit"
    /\ Len(futures) = NumAddresses
    /\ \E i \in DOMAIN futures :
          /\ futures[i].done
          /\ ~futures[i].yielded
          /\ futures' = [futures EXCEPT ![i].yielded = TRUE]
          /\ results' = IF futures[i].raised THEN results
                        ELSE Append(results, futures[i].value)
    /\ UNCHANGED <<gpc, geo_args, geo_outcome,
                   cleanVars, confVars, aggVars, hubVars, parseVars, clsVars,
                   testVars, moreVars>>

\* lines 163-167: every future has been yielded; results is returned
ReturnResults ==
    /\ gpc = "submit"
    /\ Len(futures) = NumAddresses
    /\ \A i \in DOMAIN futures : futures[i].yielded
    /\ gpc' = "returned"
    /\ UNCHANGED <<geo_args, futures, results, geo_outcome,
                   cleanVars, confVars, aggVars, hubVars, parseVars, clsVars,
                   testVars, moreVars>>

NextGeo == Submit \/ Worker \/ Collect \/ ReturnResults

SpecGeo == InitGeo /\ [][NextGeo]_vars

(***************************************************************************)
(* Claims about run_geocoding (checked under SpecGeo).                     *)
(***************************************************************************)
\* the record that index i must give
ExpectedRecord(i) ==
    [company_id |-> geo_args.company_ids[i],
     company_name |-> geo_args.company_names[i],
     address |-> geo_args.company_addresses[i],
     latitude |-> IF geo_outcome[i].raises THEN NoneValue
                  ELSE geo_outcome[i].latitude,
     longitude |-> IF geo_outcome[i].raises THEN NoneValue
                   ELSE geo_outcome[i].longitude]

\* C14: whatever the order in which the futures complete and whichever
\* geocoder calls raise, the returned results list holds exactly one record
\* per input index (in some order), with that index's id, name and address,
\* (None, None) coordinates where the geocoder raised and the geocoder's
\* coordinates elsewhere.
C14_OneRecordPerIndex ==
    gpc = "returned" =>
        /\ Len(results) = NumAddresses
        /\ \E perm \in Permutations(1..NumAddresses) :
              \A p \in 1..NumAddresses : results[p] = ExpectedRecord(perm[p])

\* the geocoder raised for the first address only, the second address
\* completed first, and both records were returned
C14_Witness ==
    /\ gpc = "returned"
    /\ NumAddresses >= 2
    /\ geo_outcome[1].raises
    /\ ~geo_outcome[2].raises
    /\ geo_args.company_ids[1] # geo_args.company_ids[2]
    /\ results[1] = ExpectedRecord(2)
    /\ results[1].latitude # NoneValue
    /\ results[2] = ExpectedRecord(1)
    /\ results[2].latitude = NoneValue
    /\ results[2].longitude = NoneValue

(***************************************************************************)
(* parse_chatbot_response, app/utils/classification_utils.py lines 4-34.   *)
(* A response is a sequence of lexical tokens of Python source (written    *)
(* with a space between tokens): brackets, braces, the comma, the number   *)
(* 1 and the string literals 'a' and 'b'.                                  *)
(***************************************************************************)
StrTokens == {"'a'", "'b'"}
Tokens == {"[", "]", "{", "}", ",", "1"} \cup StrTokens

\* the string a string literal denotes
StrValue(tok) == IF tok = "'a'" THEN <<"a">> ELSE <<"b">>

NoParse ==
    [ok |-> FALSE, next |-> 0, kind |-> "none", type_error |-> FALSE,
     text |-> <<>>, all_str |-> FALSE, strs |-> <<>>]

NoItems ==
    [ok |-> FALSE, next |-> 0, n |-> 0, unhashable |-> FALSE,
     type_error |-> FALSE, all_str |-> FALSE, strs |-> <<>>]

\* adjacent string literals from position p on: their concatenation
RECURSIVE ParseStrings(_, _)
ParseStrings(toks, p) ==
    IF p <= Len(toks) /\ toks[p] \in StrTokens
    THEN LET rest == ParseStrings(toks, p + 1)
         IN  [next |-> rest.next, text |-> StrValue(toks[p]) \o rest.text]
    ELSE [next |-> p, text |-> <<>>]

\* ast.parse and ast.literal_eval's _convert on the expression that starts at
\* position p: where it ends, the kind of value, whether building a set meets
\* an unhashable element (TypeError), and for a list whether all its items
\* are strings, and those strings
RECURSIVE ParseExpr(_, _)
RECURSIVE ParseItems(_, _, _)
ParseExpr(toks, p) ==
    IF p > Len(toks) THEN NoParse
    ELSE IF toks[p] \in StrTokens
    THEN LET r == ParseStrings(toks, p)
         IN  [ok |-> TRUE, next |-> r.next, kind |-> "str", type_error |-> FALSE,
              text |-> r.text, all_str |-> FALSE, strs |-> <<>>]
    ELSE IF toks[p] = "1"
    THEN [ok |-> TRUE, next |-> p + 1, kind |-> "int", type_error |-> FALSE,
          text |-> <<>>, all_str |-> FALSE, strs |-> <<>>]
    ELSE IF toks[p] = "["
    THEN LET r == ParseItems(toks, p + 1, "]")
         IN  IF ~r.ok THEN NoParse
             ELSE [ok |-> TRUE, next |-> r.next, kind |-> "list",
                   type_error |-> r.type_error, text |-> <<>>,
                   all_str |-> r.all_str, strs |-> r.strs]
    ELSE IF toks[p] = "{"
    THEN LET r == ParseItems(toks, p + 1, "}")
         IN  IF ~r.ok THEN NoParse
             ELSE [ok |-> TRUE, next |-> r.next,
                   kind |-> IF r.n = 0 THEN "dict" ELSE "set",
                   type_error |-> r.type_error \/ r.unhashable,
                   text |-> <<>>, all_str |-> FALSE, strs |-> <<>>]
    ELSE NoParse

\* the comma-separated items (a trailing comma allowed) up to the closing token
ParseItems(toks, p, close) ==
    IF p > Len(toks) THEN NoItems
    ELSE IF toks[p] = close
    THEN [ok |-> TRUE, next |-> p + 1, n |-> 0, unhashable |-> FALSE,
          type_error |-> FALSE, all_str |-> TRUE, strs |-> <<>>]
    ELSE LET e == ParseExpr(toks, p)
         IN  IF ~e.ok \/ e.next > Len(toks) THEN NoItems
             ELSE LET rest == IF toks[e.next] = close
                              THEN ParseItems(toks, e.next, close)
                              ELSE IF toks[e.next] = ","
                              THEN ParseItems(toks, e.next + 1, close)
                              ELSE NoItems
                  IN  IF ~rest.ok THEN NoItems
                      ELSE [ok |-> TRUE, next |-> rest.next, n |-> rest.n + 1,
                            unhashable |-> rest.unhashable
                                \/ e.kind \in {"list", "set", "dict"},
                            type_error |-> e.type_error \/ rest.type_error,
                            all_str |-> e.kind = "str" /\ rest.all_str,
                            strs |-> IF e.kind = "str"
                                     THEN <<e.text>> \o rest.strs
                                     ELSE rest.strs]

\* the whole response as an expression: a single expression, or expressions
\* separated by commas, which make a tuple
ParseResponse(toks) ==
    LET e == ParseExpr(toks, 1)
    IN  IF ~e.ok THEN NoParse
        ELSE IF e.next = Len(toks) + 1 THEN e
        ELSE LET r == ParseItems(toks \o <<"end">>, 1, "end")
             IN  IF ~r.ok THEN NoParse
                 ELSE [ok |-> TRUE, next |-> Len(toks) + 1, kind |-> "tuple",
                       type_error |-> r.type_error, text |-> <<>>,
                       all_str |-> FALSE, strs |-> <<>>]

\* what a call does: it raises, it returns None, or it returns the list data
ReturnsNone == [raises |-> FALSE, is_none |-> TRUE, data |-> <<>>]
RaisesTypeError == [raises |-> TRUE, is_none |-> FALSE, data |-> <<>>]
ReturnsList(data) == [raises |-> FALSE, is_none |-> FALSE, data |-> data]

\* lines 28-34: SyntaxError and ValueError of ast.literal_eval are caught and
\* give None, a TypeError (a set with an unhashable element) is not caught; a
\* value that is not a list of strings gives None
parse_chatbot_response(resp) ==
    LET e == ParseResponse(resp)
    IN  IF ~e.ok THEN ReturnsNone
        ELSE IF e.type_error THEN RaisesTypeError
        ELSE IF e.kind = "list" /\ e.all_str THEN ReturnsList(e.strs)
        ELSE ReturnsNone

Responses == SeqsUpTo(Tokens, MaxResponseLen)

InitParse ==
    /\ response \in Responses
    /\ parsed = NotCalled
    /\ business_suffixes = <<>>
    /\ banned_phrases = <<>>
    /\ CleanIdle
    /\ AggIdle
    /\ HubIdle
    /\ GeoIdle
    /\ ClsIdle
    /\ cleaned_company_names = <<>>
    /\ MoreIdle

\* one call of parse_chatbot_response
CallParse ==
    /\ parsed = NotCalled
    /\ parsed' = parse_chatbot_response(response)
    /\ UNCHANGED <<response, cleanVars, confVars, aggVars, hubVars, geoVars,
                   clsVars, testVars,
                   moreVars>>

NextParse == CallParse

SpecParse == InitParse /\ [][NextParse]_vars

(***************************************************************************)
(* Claims about parse_chatbot_response (checked under SpecParse).          *)
(***************************************************************************)
\* the tokens between the brackets
Interior(resp) == SubSeq(resp, 2, Len(resp) - 1)

\* resp is the text of a Python list of strings: brackets around string
\* literals (adjacent literals make one string) separated by single commas,
\* with or without a trailing comma
ListOfStringsText(resp) ==
    /\ Len(resp) >= 2
    /\ resp[1] = "[" /\ resp[Len(resp)] = "]"
    /\ LET in == Interior(resp)
       IN  /\ \A i \in 1..Len(in) : in[i] \in StrTokens \cup {","}
           /\ in # <<>> => in[1] # ","
           /\ \A i \in 1..(Len(in) - 1) : ~(in[i] = "," /\ in[i + 1] = ",")

\* the string a run of adjacent string literals denotes
RECURSIVE Concatenated(_)
Concatenated(lits) ==
    IF lits = <<>> THEN <<>> ELSE StrValue(Head(lits)) \o Concatenated(Tail(lits))

\* the list such a text denotes
ListDenoted(resp) ==
    LET pieces == SelectSeq(SplitComma(Interior(resp)), LAMBDA piece : piece # <<>>)
    IN  [i \in 1..Len(pieces) |-> Concatenated(pieces[i])]

\* C20: a call of parse_chatbot_response returns; for the text of a Python
\* list of strings it returns that list, for every other response it returns
\* the empty list.
C20_ListOrEmptyList ==
    parsed # NotCalled =>
        /\ ~parsed.raises
        /\ ~parsed.is_none
        /\ parsed.data = IF ListOfStringsText(response) THEN ListDenoted(response)
                         ELSE <<>>

(***************************************************************************)
(* The two-stage classifiers: get_indication_areas_from_description        *)
(* (indication_classifier.py lines 52-92) and                              *)
(* get_outcome_areas_from_description (app/core/outcome_classifier.py      *)
(* lines 53-95) and get_primary_purpose_areas_from_description             *)
(* (app/core/primary_purpose_classifier.py lines 53-95), which have the    *)
(* same retry loop.                                                        *)
(***************************************************************************)
\* the permitted vocabulary (indication_areas / outcome_areas)
PermittedAreas == << <<"a">> >>

\* the mutant: one permitted classification is enough
validate_classificationsAny(classifications, possible_classifications) ==
    \/ classifications = <<>>
    \/ \E i \in 1..Len(classifications) :
          \E j \in 1..Len(possible_classifications) :
              classifications[i] = possible_classifications[j]

\* validate_classifications, classification_utils.py line 60
validate_classifications(classifications, possible_classifications) ==
    \A i \in 1..Len(classifications) :
        \E j \in 1..Len(possible_classifications) :
            classifications[i] = possible_classifications[j]

\* lines 72-76: the classification prompt with the description
ClassificationMessages == [system |-> "classification prompt", user |-> "description"]

\* lines 80-85: the extraction prompt with a classification response
ExtractionMessages(classification_response) ==
    [system |-> "extraction prompt", user |-> classification_response]

\* what the first query may answer
ClassificationResponses == {"text 1", "text 2"}

\* what the second query may answer: ['a'], ['b'], [], ['a', 'b'], 1, [ and
\* {[]}
ExtractionResponses ==
    { <<"[", "'a'", "]">>,
      <<"[", "'b'", "]">>,
      <<"[", "]">>,
      <<"[", "'a'", ",", "'b'", "]">>,
      <<"1">>,
      <<"[">>,
      <<"{", "[", "]", "}">> }

InitClassify ==
    /\ cpc = "loop"
    /\ max_retries \in 0..MaxRetries
    /\ attempt = 0
    /\ queries = 0
    /\ extraction_log = <<>>
    /\ areas = <<>>
    /\ messages = ClassificationMessages
    /\ query_log = <<>>
    /\ business_suffixes = <<>>
    /\ banned_phrases = <<>>
    /\ CleanIdle
    /\ AggIdle
    /\ HubIdle
    /\ GeoIdle
    /\ ParseIdle
    /\ cleaned_company_names = <<>>
    /\ MoreIdle

\* line 77: for _ in range(max_retries) has another iteration
LoopGoesOn(done, limit) == done < limit

\* lines 78-90: one iteration of the retry loop.  The first query sends the
\* value messages has when the iteration starts; messages is then set to the
\* extraction prompt with the answer, and the second query sends that.
\* Either query may raise (the service is out of reach), which leaves the
\* function.
Attempt ==
    /\ cpc = "loop"
    /\ LoopGoesOn(attempt, max_retries)
    /\ \E first_ok, second_ok \in BOOLEAN,
          classification_response \in ClassificationResponses,
          extraction_response \in ExtractionResponses :
          LET first == [messages |-> messages, answer |-> classification_response]
              extraction == ExtractionMessages(classification_response)
              second == [messages |-> extraction, answer |-> extraction_response]
          IN  IF ~first_ok
              THEN /\ queries' = queries + 1
                   /\ query_log' = Append(query_log, [messages |-> messages,
                                                      answer |-> "raised"])
                   /\ cpc' = "query raised"
                   /\ UNCHANGED <<attempt, extraction_log, areas, messages>>
              ELSE IF ~second_ok
              THEN /\ queries' = queries + 2
                   /\ query_log' = query_log \o
                                       <<first, [messages |-> extraction,
                                                 answer |-> "raised"]>>
                   /\ messages' = extraction
                   /\ cpc' = "query raised"
                   /\ UNCHANGED <<attempt, extraction_log, areas>>
              ELSE LET r == parse_chatbot_response(extraction_response)
                   IN  /\ queries' = queries + 2
                       /\ query_log' = query_log \o <<first, second>>
                       /\ messages' = extraction
                       /\ extraction_log' = Append(extraction_log, extraction_response)
                       /\ IF r.raises
                          THEN /\ cpc' = "raised"
                               /\ UNCHANGED <<attempt, areas>>
                          ELSE IF ~r.is_none
                                  /\ validate_classifications(r.data, PermittedAreas)
                          THEN /\ cpc' = "returned"
                               /\ attempt' = attempt + 1
                               /\ areas' = r.data
                          ELSE /\ cpc' = cpc
                               /\ attempt' = attempt + 1
                               /\ areas' = areas
    /\ UNCHANGED <<max_retries, cleanVars, confVars, aggVars, hubVars, geoVars,
                   parseVars, testVars, moreVars>>

\* line 92: return [] when the loop has ended
ReturnEmpty ==
    /\ cpc = "loop"
    /\ ~LoopGoesOn(attempt, max_retries)
    /\ cpc' = "returned"
    /\ areas' = <<>>
    /\ UNCHANGED <<max_retries, attempt, queries, extraction_log, messages,
                   query_log, cleanVars, confVars, aggVars, hubVars, geoVars,
                   parseVars, testVars, moreVars>>

NextClassify == Attempt \/ ReturnEmpty

SpecClassify == InitClassify /\ [][NextClassify]_vars

(***************************************************************************)
(* Claims about the classifiers (checked under SpecClassify).              *)
(***************************************************************************)
\* resp is the text of a list of strings that are all permitted
ValidResponse(resp) ==
    /\ ListOfStringsText(resp)
    /\ validate_classifications(ListDenoted(resp), PermittedAreas)

\* C15: the classifier makes at most max_retries attempts of two queries
\* each, it never raises on a response that does not parse or validate, and
\* when it returns after no valid response it returns the empty list.
C15_BoundedRetriesNoRaise ==
    /\ attempt <= max_retries
    /\ queries <= 2 * max_retries
    /\ cpc # "raised"
    /\ (cpc = "returned"
          /\ \A i \in 1..Len(extraction_log) : ~ValidResponse(extraction_log[i])) =>
             areas = <<>>

\* C25: in every attempt the first query sends the classification prompt with
\* the description, and the second query sends the extraction prompt with the
\* answer to that attempt's first query.
C25_PromptsOfEveryAttempt ==
    \A q \in 1..Len(query_log) :
        IF q % 2 = 1
        THEN query_log[q].messages = ClassificationMessages
        ELSE query_log[q].messages = ExtractionMessages(query_log[q - 1].answer)

\* the latest extraction response the classifier received
LastExtraction == extraction_log[Len(extraction_log)]

\* C26: every element of the list a classifier returns is in the vocabulary;
\* a non-empty list returned is the whole list of the latest response, whose
\* elements are all in the vocabulary, never a part of a response that names
\* a category outside the vocabulary.
C26_OnlyVocabularyReturned ==
    cpc = "returned" =>
        /\ \A i \in 1..Len(areas) :
              \E j \in 1..Len(PermittedAreas) : areas[i] = PermittedAreas[j]
        /\ areas # <<>> =>
              /\ ValidResponse(LastExtraction)
              /\ areas = ListDenoted(LastExtraction)

\* the classifier returned ['a'] after the answer ['a', 'b'] was turned down
C26_Witness ==
    /\ cpc = "returned"
    /\ areas = << <<"a">> >>
    /\ Len(extraction_log) >= 2
    /\ extraction_log[Len(extraction_log) - 1] = <<"[", "'a'", ",", "'b'", "]">>

(***************************************************************************)
(* get_disease_condition_from_description,                                 *)
(* app/core/disease_condition_classifier.py lines 25-109.                  *)
(***************************************************************************)
\* disease_conditions.json, a list of (category, its conditions) in the order
\* of the file
DiseaseConfigs ==
    { <<>>,
      << [category |-> <<"a">>, conditions |-> <<>>] >>,
      << [category |-> <<"a">>, conditions |-> << <<"b">> >>] >>,
      << [category |-> <<"b">>, conditions |-> << <<"a">> >>] >>,
      << [category |-> <<"a">>, conditions |-> << <<"a">>, <<"b">> >>] >>,
      << [category |-> <<"a">>, conditions |-> << <<"b">> >>],
         [category |-> <<"b">>, conditions |-> << <<"a">> >>] >> }

\* lines 17-21 of load_disease_conditions
Categories(data) == [i \in 1..Len(data) |-> data[i].category]
\* line 78: category_to_conditions[category] (the keys of a JSON object are
\* distinct)
ConditionsOf(data, cat) ==
    data[CHOOSE i \in 1..Len(data) : data[i].category = cat].conditions

InList(x, l) == \E i \in 1..Len(l) : x = l[i]

\* a call parse_chatbot_response(*args): the function has one parameter
\* (classification_utils.py line 4), any other number of arguments raises
\* TypeError
CallParseChatbotResponse(args) ==
    IF Len(args) # 1 THEN RaisesTypeError ELSE parse_chatbot_response(args[1])

InitDisease ==
    /\ dpc = "category"
    /\ disease_data \in DiseaseConfigs
    /\ disease_max_retries \in 0..MaxRetries
    /\ disease_iter = 0
    /\ category = NoneValue
    /\ category_queries = 0
    /\ condition_queries = 0
    /\ disease_result = <<>>
    /\ business_suffixes = <<>>
    /\ banned_phrases = <<>>
    /\ CleanIdle
    /\ AggIdle
    /\ HubIdle
    /\ GeoIdle
    /\ ParseIdle
    /\ ClsIdle
    /\ cleaned_company_names = <<>>
    /\ DistIdle
    /\ ScrapeIdle
    /\ QueryIdle

\* lines 68-73 and 103-107: one iteration of the loop the function is in.
\* The query may raise; its answer is handed to parse_chatbot_response
\* together with the list of candidates.
DiseaseAttempt ==
    /\ dpc \in {"category", "condition"}
    /\ disease_iter < disease_max_retries
    /\ \E ok \in BOOLEAN, answer \in ExtractionResponses :
       \E candidates \in {IF dpc = "category" THEN Categories(disease_data)
                          ELSE ConditionsOf(disease_data, category[1])} :
       \E r \in {CallParseChatbotResponse(<<answer, candidates>>)} :
       \E found \in {~r.is_none /\ r.data # <<>> /\ InList(r.data[1], candidates)} :
          /\ IF dpc = "category"
             THEN /\ category_queries' = category_queries + 1
                  /\ condition_queries' = condition_queries
             ELSE /\ condition_queries' = condition_queries + 1
                  /\ category_queries' = category_queries
          /\ response' = IF ok THEN answer ELSE response
          /\ IF ~ok
             THEN /\ dpc' = "query raised"
                  /\ UNCHANGED <<disease_iter, category, disease_result>>
             ELSE IF r.raises
             THEN /\ dpc' = "raised"
                  /\ UNCHANGED <<disease_iter, category, disease_result>>
             ELSE IF ~found
             THEN /\ disease_iter' = disease_iter + 1
                  /\ UNCHANGED <<dpc, category, disease_result>>
             ELSE IF dpc = "category"
             THEN /\ category' = Some(r.data[1])
                  /\ dpc' = "condition"
                  /\ disease_iter' = 0
                  /\ disease_result' = disease_result
             ELSE /\ disease_result' = <<category[1], r.data[1]>>
                  /\ dpc' = "returned"
                  /\ UNCHANGED <<disease_iter, category>>
    /\ UNCHANGED <<disease_data, disease_max_retries, parsed, cleanVars, confVars,
                   aggVars, hubVars, geoVars, clsVars, testVars, distVars,
                   scrapeVars, queryVars>>

\* lines 74-75 and 109: the loop the function is in has ended without a
\* break or a return: return [] after the first, [category] after the second
DiseaseReturn ==
    /\ dpc \in {"category", "condition"}
    /\ disease_iter >= disease_max_retries
    /\ disease_result' = IF dpc = "category" THEN <<>> ELSE <<category[1]>>
    /\ dpc' = "returned"
    /\ UNCHANGED <<disease_data, disease_max_retries, disease_iter, category,
                   category_queries, condition_queries, pipelineVars, distVars,
                   scrapeVars, queryVars>>

NextDisease == DiseaseAttempt \/ DiseaseReturn

SpecDisease == InitDisease /\ [][NextDisease]_vars

\* C27: no condition query is made before a category is accepted, each loop
\* makes at most max_retries queries, and once an answer has ended the call
\* or the loops have run out the function has returned: [] when no category
\* was accepted, otherwise the category, a configured one, followed or not by
\* a condition listed under it.
C27_CategoryThenCondition ==
    /\ condition_queries > 0 => category # NoneValue
    /\ category_queries <= disease_max_retries
    /\ condition_queries <= disease_max_retries
    /\ dpc \in {"returned", "raised"} =>
          /\ dpc = "returned"
          /\ IF category = NoneValue THEN disease_result = <<>>
             ELSE /\ Len(disease_result) \in {1, 2}
                  /\ disease_result[1] = category[1]
                  /\ InList(category[1], Categories(disease_data))
                  /\ Len(disease_result) = 2 =>
                        InList(disease_result[2],
                               ConditionsOf(disease_data, category[1]))

(***************************************************************************)
(* test.py: clean_company_name (lines 29-74), which returns several        *)
(* cleaned versions of a name, the index cleaned_company_names (lines      *)
(* 76-85) and the matching loop (lines 105-163).                           *)
(***************************************************************************)
\* str.split(): the words between runs of whitespace
RECURSIVE Split(_)
Split(s) ==
    LET t == LStrip(s)
    IN  IF t = <<>> THEN <<>>
        ELSE LET spaces == {i \in 1..Len(t) : IsSpace(t[i])}
                 stop == IF spaces = {} THEN Len(t) + 1 ELSE Min(spaces)
             IN  <<SubSeq(t, 1, stop - 1)>> \o Split(SubSeq(t, stop, Len(t)))

\* ' '.join(words)
RECURSIVE JoinSpace(_)
JoinSpace(words) ==
    IF words = <<>> THEN <<>>
    ELSE IF Len(words) = 1 THEN words[1]
    ELSE words[1] \o <<" ">> \o JoinSpace(Tail(words))

\* str.isupper(): there is a cased character and no lower-case one
IsUpper(w) ==
    /\ \E i \in 1..Len(w) : w[i] \in UpperLetters
    /\ \A i \in 1..Len(w) : w[i] \notin LowerLetters

\* while words and len(words[-1]) <= 3: words.pop()
RECURSIVE PopShortWords(_)
PopShortWords(words) ==
    IF words # <<>> /\ Len(words[Len(words)]) <= ShortWordLen
    THEN PopShortWords(SubSeq(words, 1, Len(words) - 1))
    ELSE words

\* re.sub(r'\(.*$', '', name), line 60: from the leftmost "(" that `.*$` can
\* follow, up to where `.*$` ends
RemoveFromParen(s) ==
    LET starts == {i \in 1..Len(s) : s[i] = "(" /\ DotStarEnd(s, i) >= 0}
    IN  IF starts = {} THEN s
        ELSE SubSeq(s, 1, Min(starts) - 1)
                 \o SubSeq(s, DotStarEnd(s, Min(starts)) + 1, Len(s))

\* lines 39-44: the last word of the name, when it is upper case and no
\* business suffix
AcronymVersions(raw, suffixes) ==
    LET original_words == Split(raw)
    IN  IF original_words = <<>> THEN {}
        ELSE LET last_word == original_words[Len(original_words)]
             IN  IF IsUpper(last_word)
                    /\ \A a \in 1..Len(suffixes) : Lower(last_word) # suffixes[a]
                 THEN {last_word} ELSE {}

\* lines 36-37 and 46-54: punctuation removed, spaces normalised, short words
\* popped from the end, business suffixes removed
BaseVersion(raw, suffixes) ==
    LET base_cleaned == CollapseSpaces(Strip(StripNonWord(raw)))
        words_base == PopShortWords(Split(base_cleaned))
    IN  Strip(RemoveSuffixes(Strip(JoinSpace(words_base)), suffixes))

\* lines 59-69: the same on what stands before the parenthesis, with the
\* suffixes removed before the short words
ParenVersions(raw, suffixes) ==
    IF Positions(raw, "(") = {} \/ Positions(raw, ")") = {} THEN {}
    ELSE LET cut == Strip(RemoveFromParen(raw))
             plain == CollapseSpaces(Strip(StripNonWord(cut)))
             without_parentheses == Strip(RemoveSuffixes(plain, suffixes))
         IN  {Strip(JoinSpace(PopShortWords(Split(without_parentheses))))}

\* clean_company_name(name) of test.py: the set of cleaned versions (the list
\* is built from a set, its order is arbitrary); [""] for a value that is
\* not a str
test_clean_company_name(raw, suffixes) ==
    IF raw = None THEN {<<>>}
    ELSE LET cleaned_versions ==
                 AcronymVersions(raw, suffixes)
                     \cup {BaseVersion(raw, suffixes)}
                     \cup ParenVersions(raw, suffixes)
         IN  {Lower(v) : v \in cleaned_versions \ {<<>>}}

\* unique_company_names.csv: "Acca" and "acca." both have the version "acca",
\* "Cbbc" has "cbbc", "Cbbc BN" has "bn" and "cbbc"
TestCompanyPool ==
    { <<"A", "c", "c", "a">>,
      <<"a", "c", "c", "a", ".">>,
      <<"C", "b", "b", "c">>,
      <<"C", "b", "b", "c", " ", "B", "N">> }

\* the "Lead Sponsor" field: "", "ACCA", "Cbbc (N)", null or absent
TestLeadPool ==
    { <<>>,
      <<"A", "C", "C", "A">>,
      <<"C", "b", "b", "c", " ", "(", "N", ")">>,
      None,
      Absent }

\* the "Collaborators" field: "", "Cbbc", "aa,Cbbc,Acca" or null
TestCollabPool ==
    { <<>>,
      <<"C", "b", "b", "c">>,
      <<"a", "a", ",", "C", "b", "b", "c", ",", "A", "c", "c", "a">>,
      None }

InitTest ==
    /\ business_suffixes = << <<"b">> >>
    /\ banned_phrases = << <<"n">> >>
    /\ company_names \in SeqsUpTo(TestCompanyPool, MaxCompanies)
    /\ pc = "index"
    /\ idx = 0
    /\ temp_map = <<>>
    /\ unique_cleaned_map = <<>>
    /\ cleaned_company_names = <<>>
    /\ n_trials = 0
    /\ known_companies = <<>>
    /\ unknown_trials = <<>>
    /\ lead_sponsors = {}
    /\ written = {}
    /\ last = NoLast
    /\ trial = NoTrial
    /\ CleanIdle
    /\ HubIdle
    /\ GeoIdle
    /\ ParseIdle
    /\ ClsIdle
    /\ MoreIdle

\* lines 80-82: cleaned_company_names[cleaned] = name for every non-empty
\* cleaned version; an earlier name under the same key is replaced
PutVersions(index, versions, raw) ==
    [k \in DOMAIN index \cup (versions \ {<<>>}) |->
        IF k \in versions THEN raw ELSE index[k]]

\* lines 78-82: one iteration of the loop over company_names
TestIndexName ==
    /\ pc = "index"
    /\ idx < Len(company_names)
    /\ LET raw == company_names[idx + 1]
       IN  cleaned_company_names' =
               PutVersions(cleaned_company_names,
                           test_clean_company_name(raw, business_suffixes), raw)
    /\ idx' = idx + 1
    /\ UNCHANGED <<pc, company_names, temp_map, unique_cleaned_map, n_trials,
                   known_companies, unknown_trials, lead_sponsors, written, last,
                   trial, cleanVars, confVars, hubVars, geoVars, parseVars,
                   clsVars, moreVars>>

\* lines 84-85: the index is saved when the loop has ended
TestSaveIndex ==
    /\ pc = "index"
    /\ idx = Len(company_names)
    /\ written' = written \cup {"cleaned_company_names.json"}
    /\ pc' = "match"
    /\ UNCHANGED <<company_names, idx, temp_map, unique_cleaned_map, n_trials,
                   known_companies, unknown_trials, lead_sponsors, last, trial,
                   cleanVars, confVars, hubVars, geoVars, parseVars, clsVars,
                   testVars, moreVars>>

\* the companies the cleaned versions of raw lead to; the loop over the
\* versions stops at the first one found in the index, and their order is
\* arbitrary, so any of them can be the one
Hits(raw, index, suffixes) ==
    {index[v] : v \in test_clean_company_name(raw, suffixes) \cap DOMAIN index}

\* lines 123-128: what the lead sponsor can add to matched_companies
LeadChoices(lead_sponsor, index, suffixes) ==
    LET hits == Hits(lead_sponsor, index, suffixes)
    IN  IF hits = {} THEN {{}} ELSE {{c} : c \in hits}

\* lines 131-139: what the collaborators can add.  The loop stops after the
\* first collaborator that matches, and after the first collaborator
\* whatever it gives when trial_identified is already True.
RECURSIVE CollabChoices(_, _, _, _)
CollabChoices(collaborators, index, suffixes, trial_identified) ==
    IF collaborators = <<>> THEN {{}}
    ELSE LET hits == Hits(Head(collaborators), index, suffixes)
         IN  IF hits # {} THEN {{c} : c \in hits}
             ELSE IF trial_identified THEN {{}}
             ELSE CollabChoices(Tail(collaborators), index, suffixes, FALSE)

\* lines 119-139: the values matched_companies can have after both loops
PossibleMatches(lead_sponsor, collaborators, index, suffixes) ==
    UNION { {byLead \cup byCollab :
                byCollab \in CollabChoices(collaborators, index, suffixes,
                                           byLead # {})} :
            byLead \in LeadChoices(lead_sponsor, index, suffixes) }

\* lines 155-160: the pair is recorded when there is no collaborator or when
\* some collaborator holds no banned phrase
TracksPair(collaborators, phrases) ==
    \/ collaborators = <<>>
    \/ \E i \in 1..Len(collaborators) : ~ContainsBanned(collaborators[i], phrases)

\* lines 105-163: one iteration of the loop over the trials.  An exception
\* (a null field) is caught at line 161 and the loop goes on.
TestProcessTrial ==
    /\ pc = "match"
    /\ n_trials < MaxTrials
    /\ \E lead \in TestLeadPool, collabs \in TestCollabPool :
          LET t == [id |-> n_trials + 1, lead |-> lead, collabs |-> collabs]
          IN  /\ trial' = t
              /\ n_trials' = n_trials + 1
              /\ IF Get(lead) = None \/ Get(collabs) = None
                 THEN /\ last' = [trial |-> t, skipped |-> TRUE,
                                  matched |-> {}, looked |-> <<>>]
                      /\ UNCHANGED <<known_companies, unknown_trials,
                                     lead_sponsors>>
                 ELSE LET lead_sponsor == Get(lead)
                          collaborators == CollabList(Get(collabs))
                      IN  IF ContainsBanned(lead_sponsor, banned_phrases)
                          THEN /\ last' = [trial |-> t, skipped |-> TRUE,
                                           matched |-> {}, looked |-> <<>>]
                               /\ UNCHANGED <<known_companies, unknown_trials,
                                              lead_sponsors>>
                          ELSE \E matched_companies \in
                                     PossibleMatches(lead_sponsor, collaborators,
                                                     cleaned_company_names,
                                                     business_suffixes) :
                                 /\ last' = [trial |-> t, skipped |-> FALSE,
                                             matched |-> matched_companies,
                                             looked |-> <<>>]
                                 /\ known_companies' =
                                        AddTrial(known_companies,
                                                 matched_companies, t)
                                 /\ unknown_trials' =
                                        IF matched_companies = {}
                                        THEN Append(unknown_trials, t)
                                        ELSE unknown_trials
                                 /\ lead_sponsors' =
                                        IF TracksPair(collaborators, banned_phrases)
                                        THEN lead_sponsors \cup
                                                 {<<lead_sponsor,
                                                    JoinComma(collaborators)>>}
                                        ELSE lead_sponsors
    /\ UNCHANGED <<pc, company_names, idx, temp_map, unique_cleaned_map, written,
                   cleanVars, confVars, hubVars, geoVars, parseVars, clsVars,
                   testVars, moreVars>>

\* lines 165-205: the loop has ended, the result files are written
TestWriteOutputs ==
    /\ pc = "match"
    /\ written' = written \cup {"known_companies.json", "unknown_companies.txt",
                                "company_name_cleaning.txt",
                                "unknown_trials.json", "lead_sponsors.txt"}
    /\ pc' = "done"
    /\ UNCHANGED <<company_names, idx, temp_map, unique_cleaned_map, n_trials,
                   known_companies, unknown_trials, lead_sponsors, last, trial,
                   cleanVars, confVars, hubVars, geoVars, parseVars, clsVars,
                   testVars, moreVars>>

NextTest == TestIndexName \/ TestSaveIndex \/ TestProcessTrial \/ TestWriteOutputs

SpecTest == InitTest /\ [][NextTest]_vars

(***************************************************************************)
(* Claims about test.py (checked under SpecTest).                          *)
(***************************************************************************)
VersionsOf(raw) == test_clean_company_name(raw, business_suffixes) \ {<<>>}

\* the distinct company names that have the cleaned version key
NamesWith(key) ==
    {company_names[i] : i \in {j \in 1..Len(company_names) :
                                   key \in VersionsOf(company_names[j])}}

\* the companies a raw sponsor name leads to through keys that one company
\* name only produces
SoleOwners(raw) ==
    UNION {NamesWith(key) : key \in {k \in VersionsOf(raw) :
                                         Cardinality(NamesWith(k)) = 1}}

\* the lead sponsor and the collaborators of the latest trial, as test.py
\* reads them
TestLastLead == Get(last.trial.lead)
TestLastCollabs == CollabList(Get(last.trial.collabs))

\* C18: once the index of test.py is built, a cleaned version that two or
\* more distinct company names produce is not a key of it, and a trial is
\* attributed only to companies that one of its sponsors reaches through a
\* version no other company name produces.
C18_TestCollidingKeysExcluded ==
    pc \in {"match", "done"} =>
        /\ \A key \in DOMAIN cleaned_company_names :
              Cardinality(NamesWith(key)) = 1
        /\ Matched1 =>
              last.matched \subseteq
                  SoleOwners(TestLastLead)
                      \cup UNION {SoleOwners(TestLastCollabs[i]) :
                                     i \in 1..Len(TestLastCollabs)}

\* C19: when a cleaned version of the lead sponsor is in the index, the trial
\* is in the trial list of exactly one company, one the lead sponsor leads
\* to, whatever the collaborators are.
C19_TestLeadOnly ==
    (Matched1 /\ Hits(TestLastLead, cleaned_company_names, business_suffixes) # {}) =>
        /\ Cardinality(HoldersOf(last.trial)) = 1
        /\ HoldersOf(last.trial) \subseteq
               Hits(TestLastLead, cleaned_company_names, business_suffixes)

(***************************************************************************)
(* app/services/scrape_webpage.py: the caches, save_to_cache (lines        *)
(* 130-155), _scrape (lines 158-211) and scrape_and_parse_webpage (lines   *)
(* 214-242).  A dict is a function; the empty dict is <<>>.  The text      *)
(* format_results gives for an element is stood for by the set of texts    *)
(* it joins.                                                               *)
(***************************************************************************)
Urls == {"u1", "u2"}
DrugNames == {"d1", "d2"}
target_elements == <<"e1">>

\* what a GET request can give: an error (the request or raise_for_status
\* raises), or a page with or without the overview div which holds some
\* texts or none for the target element
Pages ==
    { [status |-> "error", overview |-> FALSE, texts |-> {}],
      [status |-> "ok", overview |-> FALSE, texts |-> {}],
      [status |-> "ok", overview |-> TRUE, texts |-> {}],
      [status |-> "ok", overview |-> FALSE, texts |-> {"x"}],
      [status |-> "ok", overview |-> TRUE, texts |-> {"y"}] }

\* lines 181-205: results holds the elements for which some text was found
Extract(page) ==
    [e \in {target_elements[i] : i \in {j \in 1..Len(target_elements) :
                                             page.texts # {}}} |-> page.texts]

\* the module's globals and the traces, as one record
Caches ==
    [url_cache |-> url_cache, drug_cache |-> drug_cache,
     html_mapping |-> html_mapping, disk |-> disk, http_log |-> http_log]

\* lines 53-71: the three caches are written to disk
save_caches(c) ==
    [c EXCEPT !.disk = [url_cache |-> c.url_cache, drug_cache |-> c.drug_cache,
                        html_mapping |-> c.html_mapping]]

\* lines 146-148: the path of the file the overview of url is written to
FilePath(url) == <<"cache", url>>

\* lines 130-155
save_to_cache(c, url, drug_name) ==
    save_caches([c EXCEPT !.html_mapping = Put(@, drug_name, FilePath(url))])

\* the mutant: the cache is not looked at, the page is always fetched
scrapeAlwaysFetching(c, url, drug_name, proxied, page) ==
    LET c1 == [c EXCEPT !.http_log = Append(@, [url |-> url, proxied |-> proxied])]
    IN  IF page.status = "error"
        THEN [c |-> c1, raised |-> TRUE, results |-> <<>>]
        ELSE LET c2 == IF page.overview THEN save_to_cache(c1, url, drug_name) ELSE c1
                 extracted == Extract(page)
             IN  [c |-> save_caches([c2 EXCEPT
                                        !.url_cache = Put(@, url, extracted),
                                        !.drug_cache = Put(@, drug_name, extracted)]),
                  raised |-> FALSE, results |-> extracted]

\* _scrape, lines 158-211: the cached results when there are some, otherwise
\* one GET request (through the proxy when proxied), whose page is page
scrape(c, url, drug_name, proxied, page) ==
    IF url \in DOMAIN c.url_cache
    THEN [c |-> c, raised |-> FALSE, results |-> c.url_cache[url]]
    ELSE LET c1 == [c EXCEPT !.http_log = Append(@, [url |-> url,
                                                     proxied |-> proxied])]
         IN  IF page.status = "error"
             THEN [c |-> c1, raised |-> TRUE, results |-> <<>>]
             ELSE LET c2 == IF page.overview
                            THEN save_to_cache(c1, url, drug_name) ELSE c1
                      extracted == Extract(page)
                  IN  [c |-> save_caches([c2 EXCEPT
                                             !.url_cache = Put(@, url, extracted),
                                             !.drug_cache = Put(@, drug_name, extracted)]),
                       raised |-> FALSE, results |-> extracted]

\* scrape_and_parse_webpage, lines 214-242: direct is the page a direct
\* request gives, through_proxy the page a request through the proxy gives
scrape_and_parse_webpage(c, url, drug_name, direct, through_proxy) ==
    LET first == scrape(c, url, drug_name, FALSE, direct)
    IN  IF ~first.raised /\ first.results # <<>>
        THEN [c |-> first.c, first |-> first, results |-> first.results]
        ELSE LET second == scrape(first.c, url, drug_name, TRUE, through_proxy)
             IN  [c |-> second.c, first |-> first,
                  results |-> IF second.raised THEN <<>> ELSE second.results]

InitScrape ==
    /\ ScrapeIdle
    /\ business_suffixes = <<>>
    /\ banned_phrases = <<>>
    /\ CleanIdle
    /\ AggIdle
    /\ HubIdle
    /\ GeoIdle
    /\ ParseIdle
    /\ ClsIdle
    /\ cleaned_company_names = <<>>
    /\ DistIdle
    /\ DiseaseIdle
    /\ QueryIdle

\* the requests the call made: those http_log has gained
NewRequests(before, after) == SubSeq(after, Len(before) + 1, Len(after))

\* a call of _scrape
CallScrape ==
    /\ n_calls < MaxCalls
    /\ \E url \in Urls, drug_name \in DrugNames, proxied \in BOOLEAN, page \in Pages :
          LET r == scrape(Caches, url, drug_name, proxied, page)
          IN  /\ url_cache' = r.c.url_cache
              /\ drug_cache' = r.c.drug_cache
              /\ html_mapping' = r.c.html_mapping
              /\ disk' = r.c.disk
              /\ http_log' = r.c.http_log
              /\ scrape_call' =
                     [fn |-> "_scrape", url |-> url,
                      cached |-> url \in DOMAIN url_cache,
                      first |-> <<>>,
                      requests |-> NewRequests(http_log, r.c.http_log),
                      pages |-> IF Len(r.c.http_log) > Len(http_log)
                                THEN <<page>> ELSE <<>>,
                      raised |-> r.raised, result |-> r.results]
    /\ n_calls' = n_calls + 1
    /\ UNCHANGED <<pipelineVars, distVars, diseaseVars, queryVars>>

\* a call of scrape_and_parse_webpage
CallScrapeAndParse ==
    /\ n_calls < MaxCalls
    /\ \E url \in Urls, drug_name \in DrugNames, direct \in Pages,
          through_proxy \in Pages :
          LET r == scrape_and_parse_webpage(Caches, url, drug_name, direct,
                                            through_proxy)
              made == NewRequests(http_log, r.c.http_log)
          IN  /\ url_cache' = r.c.url_cache
              /\ drug_cache' = r.c.drug_cache
              /\ html_mapping' = r.c.html_mapping
              /\ disk' = r.c.disk
              /\ http_log' = r.c.http_log
              /\ scrape_call' =
                     [fn |-> "scrape_and_parse_webpage", url |-> url,
                      cached |-> url \in DOMAIN url_cache,
                      first |-> <<[raised |-> r.first.raised,
                                   results |-> r.first.results]>>,
                      requests |-> made,
                      pages |-> [i \in 1..Len(made) |->
                                    IF made[i].proxied THEN through_proxy
                                    ELSE direct],
                      raised |-> FALSE, result |-> r.results]
    /\ n_calls' = n_calls + 1
    /\ UNCHANGED <<pipelineVars, distVars, diseaseVars, queryVars>>

NextScrape == CallScrape \/ CallScrapeAndParse

SpecScrape == InitScrape /\ [][NextScrape]_vars

(***************************************************************************)
(* Claims about scrape_webpage.py (checked under SpecScrape).              *)
(***************************************************************************)
\* the latest call is a scrape_and_parse_webpage whose direct _scrape
\* returned, without raising, empty results
DirectScrapeEmpty ==
    /\ scrape_call.fn = "scrape_and_parse_webpage"
    /\ ~scrape_call.first[1].raised
    /\ scrape_call.first[1].results = <<>>

\* C21: when the direct scrape returns empty results without an error, the
\* call makes a further request for the URL, through the proxy, and returns
\* what that request's page gives (nothing when it fails).
C21_ProxyFallbackOnEmpty ==
    DirectScrapeEmpty =>
        LET n == Len(scrape_call.requests)
        IN  /\ n >= 1
            /\ scrape_call.requests[n] = [url |-> scrape_call.url, proxied |-> TRUE]
            /\ scrape_call.result =
                   IF scrape_call.pages[n].status = "error" THEN <<>>
                   ELSE Extract(scrape_call.pages[n])

\* what save_caches wrote last is what the three caches hold
C29_Saved ==
    disk = [url_cache |-> url_cache, drug_cache |-> drug_cache,
            html_mapping |-> html_mapping]

\* a call leaves every entry of url_cache as it is, and a call for a URL that
\* has an entry makes no request
C29_CacheHit ==
    \A u \in DOMAIN url_cache :
        /\ u \in DOMAIN url_cache'
        /\ url_cache'[u] = url_cache[u]
        /\ (n_calls' = n_calls + 1 /\ scrape_call'.url = u) => http_log' = http_log

\* C29: once a URL has an entry in url_cache, a call of _scrape or of
\* scrape_and_parse_webpage for it makes no HTTP request and no call replaces
\* the entry; whenever a call has returned, the caches on disk are the caches
\* in memory.
C29_CachedAndSaved == []C29_Saved /\ [][C29_CacheHit]_vars

\* scrape_and_parse_webpage was called for a URL that had an entry, made no
\* request, and an overview had been saved before
C29_Witness ==
    /\ scrape_call.fn = "scrape_and_parse_webpage"
    /\ scrape_call.cached
    /\ scrape_call.requests = <<>>
    /\ scrape_call.result = url_cache[scrape_call.url]
    /\ html_mapping # <<>>
    /\ disk.url_cache = url_cache

(***************************************************************************)
(* AzureOpenaiService.query, app/services/azure/azure_openai_service.py    *)
(* lines 34-65, under tenacity's retry wrapper (lines 35-39).              *)
(***************************************************************************)
\* lines 15-31: the number of configured endpoints
NumEndpoints == 3

\* line 36: stop_after_attempt(3)
StopAfterAttempt == 3

\* what an endpoint can do: answer, or raise openai.RateLimitError,
\* openai.APIError, or an exception of another type
EndpointOutcomes == {"ok", "RateLimitError", "APIError", "OpenAIError"}

\* line 38: the exception types the wrapper retries on
Retried == {"RateLimitError", "APIError"}

\* the mutant: no fallback, the first endpoint's exception is raised
RECURSIVE TryEndpointsNoFallback(_, _)
TryEndpointsNoFallback(outcomes, endpoint) ==
    IF endpoint > Len(outcomes)
    THEN [calls |-> <<>>, raised |-> TRUE, exception |-> "none"]
    ELSE [calls |-> <<[endpoint |-> endpoint, outcome |-> outcomes[endpoint]]>>,
          raised |-> outcomes[endpoint] # "ok",
          exception |-> outcomes[endpoint]]

\* lines 47-65: the loop over self.endpoints from the given endpoint on,
\* outcomes[i] being what endpoint i does when it is called.  The first
\* answer is returned; when no endpoint answers, the exception of the last
\* one is raised.
RECURSIVE TryEndpoints(_, _)
TryEndpoints(outcomes, endpoint) ==
    IF endpoint > Len(outcomes)
    THEN [calls |-> <<>>, raised |-> TRUE, exception |-> "none"]
    ELSE LET call == [endpoint |-> endpoint, outcome |-> outcomes[endpoint]]
         IN  IF outcomes[endpoint] = "ok"
             THEN [calls |-> <<call>>, raised |-> FALSE, exception |-> "none"]
             ELSE LET rest == TryEndpoints(outcomes, endpoint + 1)
                  IN  [calls |-> <<call>> \o rest.calls,
                       raised |-> rest.raised,
                       exception |-> IF endpoint = Len(outcomes)
                                     THEN outcomes[endpoint]
                                     ELSE rest.exception]

InitQuery ==
    /\ qpc = "attempt"
    /\ attempt_number = 0
    /\ endpoint_calls = <<>>
    /\ attempt_log = <<>>
    /\ query_outcome = <<>>
    /\ business_suffixes = <<>>
    /\ banned_phrases = <<>>
    /\ CleanIdle
    /\ AggIdle
    /\ HubIdle
    /\ GeoIdle
    /\ ParseIdle
    /\ ClsIdle
    /\ cleaned_company_names = <<>>
    /\ DistIdle
    /\ DiseaseIdle
    /\ ScrapeIdle

\* one attempt of the retry wrapper: query's body runs once.  An answer is
\* returned; an exception of a retried type starts another attempt unless
\* this was the last one allowed, in which case the wrapper raises
\* RetryError; an exception of another type is raised as it is.
QueryAttempt ==
    /\ qpc = "attempt"
    /\ \E outcomes \in [1..NumEndpoints -> EndpointOutcomes] :
          LET r == TryEndpoints(outcomes, 1)
              n == attempt_number + 1
          IN  /\ attempt_number' = n
              /\ endpoint_calls' =
                     endpoint_calls \o
                         [i \in 1..Len(r.calls) |->
                             [attempt |-> n, endpoint |-> r.calls[i].endpoint,
                              outcome |-> r.calls[i].outcome]]
              /\ attempt_log' = Append(attempt_log,
                                       [raised |-> r.raised,
                                        exception |-> r.exception])
              /\ IF ~r.raised
                 THEN /\ qpc' = "returned"
                      /\ query_outcome' = <<"response", n, Len(r.calls)>>
                 ELSE IF r.exception \in Retried /\ n < StopAfterAttempt
                 THEN /\ qpc' = "attempt"
                      /\ query_outcome' = query_outcome
                 ELSE /\ qpc' = "raised"
                      /\ query_outcome' = IF r.exception \in Retried
                                          THEN <<"RetryError">>
                                          ELSE <<r.exception>>
    /\ UNCHANGED <<pipelineVars, distVars, diseaseVars, scrapeVars>>

NextQuery == QueryAttempt

SpecQuery == InitQuery /\ [][NextQuery]_vars

\* the endpoint calls of attempt n, in the order they were made
CallsOf(n) == SelectSeq(endpoint_calls, LAMBDA c : c.attempt = n)

\* C28: in every attempt the endpoints are called in their configured order
\* from the first on, no endpoint is called after one has answered, and the
\* attempt raises only when every endpoint was called and failed, the
\* exception being that of the last endpoint; at most 3 attempts and 9
\* endpoint calls are made.
C28_EndpointFallback ==
    /\ attempt_number <= 3
    /\ Len(endpoint_calls) <= 9
    /\ Len(attempt_log) = attempt_number
    /\ \A n \in 1..attempt_number :
          LET calls == CallsOf(n)
          IN  /\ Len(calls) \in 1..NumEndpoints
              /\ \A i \in 1..Len(calls) :
                    /\ calls[i].endpoint = i
                    /\ i < Len(calls) => calls[i].outcome # "ok"
              /\ IF attempt_log[n].raised
                 THEN /\ Len(calls) = NumEndpoints
                      /\ \A i \in 1..Len(calls) : calls[i].outcome # "ok"
                      /\ attempt_log[n].exception = calls[NumEndpoints].outcome
                 ELSE calls[Len(calls)].outcome = "ok"
    /\ qpc = "returned" => ~attempt_log[attempt_number].raised
    /\ qpc = "raised" => attempt_log[attempt_number].raised

\* the third attempt was answered by the second endpoint after the first two
\* attempts had failed on every endpoint
C28_Witness ==
    /\ qpc = "returned"
    /\ attempt_number = 3
    /\ Len(endpoint_calls) = 8
    /\ endpoint_calls[7].outcome # "ok"
    /\ endpoint_calls[8] = [attempt |-> 3, endpoint |-> 2, outcome |-> "ok"]

====
